---- MODULE Spec2Model ----
(***************************************************************************)
(* State-machine model of fastautoml (src/fastautoml/fastautoml.py):       *)
(* the Miscoding profile, and the greedy model search of AutoClassifier    *)
(* and AutoRegressor (family loop of fit, tree pruning-path walk, kernel   *)
(* SVM coordinate search, multilayer search, linear forward selection).    *)
(*                                                                         *)
(* Numbers.  Floating point values are modelled as exact rationals         *)
(* <<numerator, denominator>>.  A nescience score is an integer number of  *)
(* 1/NscUnit steps, so the literal 1 of the source is the score NscUnit.   *)
(* A trained estimator is a record that carries what it was trained with   *)
(* (family, columns, hidden layers or hyperparameters) and, as a history   *)
(* field, the nescience computed for it when it was evaluated.             *)
(***************************************************************************)
EXTENDS Integers, Sequences, FiniteSets, TLC

\* ------------------------------------------------------------------------
\* Bounds of the model
\* ------------------------------------------------------------------------

\* number of features p of the dataset
P == 3

\* the regular miscoding of a feature is one of 0/D, 1/D, ..., D/D
D == 1

\* a nescience score is one of 0/NscUnit, ..., NscUnit/NscUnit
NscUnit == 2

\* longest cost-complexity pruning path
MaxPath == 3

\* ------------------------------------------------------------------------
\* Exact arithmetic standing for the numpy float arithmetic
\* ------------------------------------------------------------------------

Abs(n) == IF n < 0 THEN -n ELSE n

RECURSIVE GCD(_, _)
GCD(a, b) == IF b = 0 THEN a ELSE GCD(b, a % b)

\* the rational n/d in lowest terms, d > 0
Q(n, d) ==
    LET s == IF d < 0 THEN -1 ELSE 1
        g == GCD(Abs(n), Abs(d))
    IN  IF n = 0 THEN <<0, 1>> ELSE <<(s * n) \div g, (s * d) \div g>>

AddQ(a, b) == Q(a[1] * b[2] + b[1] * a[2], a[2] * b[2])
SubQ(a, b) == Q(a[1] * b[2] - b[1] * a[2], a[2] * b[2])
MulQ(a, b) == Q(a[1] * b[1], a[2] * b[2])
DivQ(a, b) == Q(a[1] * b[2], a[2] * b[1])
LessQ(a, b) == a[1] * b[2] < b[1] * a[2]

Zero == Q(0, 1)
OneQ == Q(1, 1)

\* np.sum of a vector
RECURSIVE SumQ(_)
SumQ(v) == IF Len(v) = 0 THEN Zero ELSE AddQ(v[1], SumQ(Tail(v)))

\* np.argmax: the first index holding the largest value
ArgMax(v) ==
    CHOOSE i \in 1..Len(v) :
        /\ \A j \in 1..Len(v) : ~LessQ(v[i], v[j])
        /\ \A j \in 1..(i - 1) : LessQ(v[j], v[i])

\* ------------------------------------------------------------------------
\* Miscoding.fit: the profile (regular, adjusted, partial)
\* ------------------------------------------------------------------------

\* the regular miscodings a dataset can have: p values in [0, 1]
RegularInputs == [1..P -> {Q(r, D) : r \in 0..D}]

\* the same, renormalised when the sum of regular is not 0
AdjustedOf_TestsRegular(regular) ==
    LET adj == [i \in 1..Len(regular) |-> SubQ(OneQ, regular[i])]
    IN  IF SumQ(regular) # Zero /\ SumQ(adj) # Zero
        THEN [i \in 1..Len(regular) |-> DivQ(adj[i], SumQ(adj))]
        ELSE adj

\* the same, never renormalised
AdjustedOf_NotRenormalised(regular) ==
    [i \in 1..Len(regular) |-> SubQ(OneQ, regular[i])]

\* self.adjusted_ = 1 - self.regular_, renormalised when its sum is not 0
AdjustedOf(regular) ==
    LET adj == [i \in 1..Len(regular) |-> SubQ(OneQ, regular[i])]
    IN  IF SumQ(adj) # Zero
        THEN [i \in 1..Len(regular) |-> DivQ(adj[i], SumQ(adj))]
        ELSE adj

\* self.partial_ = adjusted - regular / sum(regular) when sum(regular) is not 0
PartialOf(regular) ==
    LET adj == AdjustedOf(regular)
    IN  IF SumQ(regular) # Zero
        THEN [i \in 1..Len(regular) |->
                  SubQ(adj[i], DivQ(regular[i], SumQ(regular)))]
        ELSE adj

\* ------------------------------------------------------------------------
\* State
\* ------------------------------------------------------------------------

VARIABLES
    pc,         \* position in the running method
    kind,       \* "classifier" (AutoClassifier) or "regressor" (AutoRegressor)
    auto,       \* self.auto
    X_min,      \* the smallest entry of self.X_
    regular_,   \* Miscoding.regular_
    adjusted_,  \* Miscoding.adjusted_
    partial_,   \* Miscoding.partial_
    fam,        \* index of the family reached by the loop of fit
    nsc,        \* nsc of fit
    model_,     \* self.model_
    viu_,       \* self.viu_
    ret,        \* the tuple returned by the family that has just run
    frame,      \* local variables of the running family method
    evaluated,  \* history: the families fit evaluated and the earliest
                \* of their lowest scores
    scorer,     \* what nescience() answers for the running family
    result      \* value returned by the last call on the Miscoding instance

vars == <<pc, kind, auto, X_min, regular_, adjusted_, partial_, fam, nsc,
          model_, viu_, ret, frame, evaluated, scorer, result>>

\* ------------------------------------------------------------------------
\* Values
\* ------------------------------------------------------------------------

\* the nescience scores, in steps of 1/NscUnit
Nsc == 0..NscUnit

\* the literal 1 that fit and the tree searches start from
One == NscUnit

\* None, as a model and as a ViU
None == [family |-> "None"]
NoViU == <<>>

\* smallest entry of X: a negative value, or none
XMinValues == {-1, 0}

\* self.classifiers_ and self.regressors_, in list order
Classifiers ==
    <<"MultinomialNB", "DecisionTreeClassifier", "LinearSVC", "SVC",
      "MLPClassifier">>

Regressors ==
    <<"LinearRegression", "LinearSVR", "DecisionTreeRegressor",
      "MLPRegressor">>

Families == IF kind = "classifier" THEN Classifiers ELSE Regressors

\* the mask selecting every column: a model fitted on self.X_
AllCols == [i \in 1..P |-> 1]

\* np.zeros(p)
Zeros == [i \in 1..P |-> 0]

\* the columns a model returned with this ViU is fed at prediction time
ColsOf(viu) == IF viu = NoViU THEN AllCols ELSE viu

\* np.sum(viu)
RECURSIVE Sum(_)
Sum(v) == IF Len(v) = 0 THEN 0 ELSE v[1] + Sum(Tail(v))

\* an estimator of this family fitted on the columns cols with the
\* settings par (hidden layers, hyperparameters, ccp_alpha), for which
\* nescience() answered s
Trained(family, cols, par, s) ==
    [family |-> family, cols |-> cols, par |-> par, nsc |-> s]

\* where a family method returns to: the loop of fit, or its direct caller
ReturnTo == IF auto THEN "update" ELSE "returned"

NoFrame == [method |-> "none"]
NoResult == [call |-> "none", mode |-> "none", subset |-> <<>>,
             value |-> <<>>, error |-> "none"]
NoRet == [nsc |-> One, model |-> None, viu |-> NoViU]

\* ------------------------------------------------------------------------
\* Nescience.nescience as the searches see it: an opaque objective
\* ------------------------------------------------------------------------

\* The answers of nescience() for the candidates of one family.  "any": an
\* answer is any score (a training that is not repeatable).  Otherwise the
\* answer is a function of the candidate: base for the first candidate of
\* the family, gain less for every step of growth, never below 0.
AnyAnswer == [any |-> TRUE, base |-> 0, gain |-> 0]
Scorers ==
    {AnyAnswer} \cup
    {g \in [any : {FALSE}, base : Nsc, gain : 0..1] : g.base = 0 => g.gain = 0}

\* inside fit the search is run with the scorers that are functions
ScorersFor(a) == IF a THEN Scorers \ {AnyAnswer} ELSE Scorers

Max(a, b) == IF a > b THEN a ELSE b
Min(a, b) == IF a < b THEN a ELSE b

\* the possible values of nescience(model) for a candidate that is
\* `growth` steps larger than the first candidate of its family; a
\* nescience is never above 1
Nescience(growth) ==
    IF scorer.any THEN Nsc
    ELSE {Min(One, Max(0, scorer.base - scorer.gain * growth))}

\* ------------------------------------------------------------------------
\* AutoClassifier.fit / AutoRegressor.fit
\* ------------------------------------------------------------------------

\* new_nsc < nsc: the candidate replaces the incumbent
Better(new_nsc, old_nsc) == new_nsc < old_nsc

\* the history before the first family, and after one more family has
\* returned its score: the lowest score so far stays with the family that
\* reached it first
NoneEvaluated == [families |-> <<>>, earliest |-> "", lowest |-> -1]
Evaluate(e, family, new_nsc) ==
    LET lower == e.families = <<>> \/ new_nsc < e.lowest
    IN  [families |-> Append(e.families, family),
         earliest |-> IF lower THEN family ELSE e.earliest,
         lowest   |-> IF lower THEN new_nsc ELSE e.lowest]

\* a skip test that takes a zero entry for a negative one
SkipFamily_OnZero(f, xmin) == f = "MultinomialNB" /\ ~(xmin > 0)

\* the skip test of the family loop
SkipFamily(f, xmin) == f = "MultinomialNB" /\ ~(xmin >= 0)

Init ==
    /\ pc = "new"
    /\ kind \in {"classifier", "regressor"}
    /\ auto \in BOOLEAN
    /\ X_min = 0
    /\ regular_ = <<>>
    /\ adjusted_ = <<>>
    /\ partial_ = <<>>
    /\ fam = 0
    /\ nsc = One
    /\ model_ = None
    /\ viu_ = NoViU
    /\ ret = NoRet
    /\ frame = NoFrame
    /\ evaluated = NoneEvaluated
    /\ scorer = AnyAnswer
    /\ result = NoResult

\* fit up to the family loop: Nescience.fit (and with it Miscoding.fit) on
\* the dataset, then nsc = 1, model_ = None, viu_ = None
fit ==
    /\ pc = "new"
    /\ \E r \in RegularInputs, xm \in XMinValues :
          /\ X_min' = (IF kind = "classifier" /\ auto THEN xm ELSE 0)
          /\ regular_' = r
          /\ adjusted_' = AdjustedOf(r)
          /\ partial_' = PartialOf(r)
    /\ nsc' = One
    /\ model_' = None
    /\ viu_' = NoViU
    /\ fam' = 1
    /\ pc' = IF auto THEN "loop" ELSE "done"
    /\ UNCHANGED <<kind, auto, ret, frame, evaluated, scorer, result>>

\* head of the family loop: next family, skipped or called
fit_for ==
    /\ pc = "loop"
    /\ IF fam > Len(Families)
       THEN /\ pc' = "done"
            /\ UNCHANGED <<fam, scorer>>
       ELSE IF SkipFamily(Families[fam], X_min)
       THEN /\ fam' = fam + 1
            /\ pc' = "loop"
            /\ UNCHANGED scorer
       ELSE /\ pc' = Families[fam]
            /\ scorer' \in ScorersFor(auto)
            /\ UNCHANGED fam
    /\ UNCHANGED <<kind, auto, X_min, regular_, adjusted_, partial_, nsc,
                   model_, viu_, ret, frame, evaluated, result>>

\* (new_nsc, new_model, new_viu) = clf(); replace the incumbent if better
fit_update ==
    /\ pc = "update"
    /\ IF Better(ret.nsc, nsc)
       THEN /\ nsc' = ret.nsc
            /\ model_' = ret.model
            /\ viu_' = ret.viu
       ELSE UNCHANGED <<nsc, model_, viu_>>
    /\ evaluated' = Evaluate(evaluated, Families[fam], ret.nsc)
    /\ fam' = fam + 1
    /\ ret' = NoRet
    /\ frame' = NoFrame
    /\ scorer' = AnyAnswer
    /\ pc' = "loop"
    /\ UNCHANGED <<kind, auto, X_min, regular_, adjusted_, partial_, result>>

\* the family methods that read the Miscoding profile
ProfileReaders == {"MLPClassifier", "MLPRegressor", "LinearRegression"}

\* the dataset on which every feature determines the target
Determined == [i \in 1..P |-> Zero]

\* with auto=False fit selects nothing and the caller runs a family method
\* of the fitted object directly; the methods that never read the profile
\* are called on the object fitted on one dataset only
call ==
    /\ pc = "done"
    /\ ~auto
    /\ \E f \in 1..Len(Families) :
          /\ Families[f] \in ProfileReaders \/ regular_ = Determined
          /\ fam' = f
          /\ pc' = Families[f]
    /\ scorer' \in ScorersFor(auto)
    /\ ret' = NoRet
    /\ frame' = NoFrame
    /\ UNCHANGED <<kind, auto, X_min, regular_, adjusted_, partial_, nsc,
                   model_, viu_, evaluated, result>>

\* ------------------------------------------------------------------------
\* Families without hyperparameters: MultinomialNB, LinearSVC, LinearSVR
\* ------------------------------------------------------------------------

\* model.fit(self.X_, self.y_); nsc = nescience(model); return (nsc, model, None)
FitOnce(family) ==
    /\ pc = family
    /\ \E s \in Nescience(0) :
          ret' = [nsc |-> s, model |-> Trained(family, AllCols, <<>>, s),
                  viu |-> NoViU]
    /\ pc' = ReturnTo
    /\ UNCHANGED <<kind, auto, X_min, regular_, adjusted_, partial_, fam, nsc,
                   model_, viu_, frame, evaluated, scorer, result>>

MultinomialNB == FitOnce("MultinomialNB")

LinearSVC == FitOnce("LinearSVC")

LinearSVR == FitOnce("LinearSVR")

\* ------------------------------------------------------------------------
\* Tree search: DecisionTreeClassifier, DecisionTreeRegressor
\* ------------------------------------------------------------------------

TreeFamilies == {"DecisionTreeClassifier", "DecisionTreeRegressor"}

\* node counts of a binary tree with at most MaxLeaves leaves
MaxLeaves == 2
NodeCounts == {2 * l - 1 : l \in 1..MaxLeaves}

\* model.tree_.node_count for every ccp_alpha of reversed(path.ccp_alphas)
\* a smaller alpha never gives a smaller tree
Paths ==
    {path \in UNION {[1..n -> NodeCounts] : n \in 1..MaxPath} :
        \A k \in 1..(Len(path) - 1) : path[k] <= path[k + 1]}

\* clf.cost_complexity_pruning_path; previous_nodes = -1; best_nsc = 1;
\* best_model = None
DecisionTree_begin(family) ==
    /\ pc = family
    /\ \E path \in Paths :
          frame' = [method |-> family, path |-> path, k |-> 1,
                    previous_nodes |-> -1, best_nsc |-> One,
                    best_model |-> None, stop |-> FALSE, log |-> <<>>]
    /\ pc' = "tree_for"
    /\ UNCHANGED <<kind, auto, X_min, regular_, adjusted_, partial_, fam, nsc,
                   model_, viu_, ret, evaluated, scorer, result>>

\* a test that also takes an equal score
DecisionTree_Better_OrEqual(new_nsc, best_nsc) == new_nsc <= best_nsc

\* new_nsc < best_nsc
DecisionTree_Better(new_nsc, best_nsc) == new_nsc < best_nsc

\* the history of the walk: one entry per alpha reached
Visit(k, n, new_nsc, what) ==
    [k |-> k, nodes |-> n, nsc |-> new_nsc, what |-> what]

\* one iteration of "for ccp_alpha in reversed(path.ccp_alphas)"
DecisionTree_for ==
    /\ pc = "tree_for"
    /\ ~frame.stop
    /\ frame.k <= Len(frame.path)
    /\ LET n == frame.path[frame.k]
       IN  IF n = frame.previous_nodes
           THEN frame' = [frame EXCEPT
                    !.k = @ + 1,
                    !.log = Append(@, Visit(frame.k, n, -1, "skip"))]
           ELSE \E new_nsc \in Nescience(frame.k - 1) :
                   IF DecisionTree_Better(new_nsc, frame.best_nsc)
                   THEN frame' = [frame EXCEPT
                            !.k = @ + 1,
                            !.previous_nodes = n,
                            !.best_nsc = new_nsc,
                            !.best_model = Trained(frame.method, AllCols,
                                                   frame.k, new_nsc),
                            !.log = Append(@, Visit(frame.k, n, new_nsc,
                                                    "better"))]
                   ELSE frame' = [frame EXCEPT
                            !.previous_nodes = n,
                            !.stop = TRUE,
                            !.log = Append(@, Visit(frame.k, n, new_nsc,
                                                    "break"))]
    /\ UNCHANGED <<pc, kind, auto, X_min, regular_, adjusted_, partial_, fam,
                   nsc, model_, viu_, ret, evaluated, scorer, result>>

\* return (best_nsc, best_model, None), after the break or the last alpha
DecisionTree_return ==
    /\ pc = "tree_for"
    /\ frame.stop \/ frame.k > Len(frame.path)
    /\ ret' = [nsc |-> frame.best_nsc, model |-> frame.best_model,
               viu |-> NoViU]
    /\ pc' = ReturnTo
    /\ UNCHANGED <<kind, auto, X_min, regular_, adjusted_, partial_, fam, nsc,
                   model_, viu_, frame, evaluated, scorer, result>>

DecisionTreeClassifier == DecisionTree_begin("DecisionTreeClassifier")

DecisionTreeRegressor == DecisionTree_begin("DecisionTreeRegressor")

\* ------------------------------------------------------------------------
\* Multilayer search: MLPClassifier, MLPRegressor
\* ------------------------------------------------------------------------

MLPFamilies == {"MLPClassifier", "MLPRegressor"}

\* units of the first hidden layer and of every added layer
NewLayerUnits == 3

MinusOne == Q(-1, 1)

\* viu[i] = 1
Put(viu, i) == [viu EXCEPT ![i] = 1]

\* msd[np.where(viu)] = -1
Mark(msd, viu) ==
    [j \in 1..Len(msd) |-> IF viu[j] = 1 THEN MinusOne ELSE msd[j]]

\* the first network: the two features "Select the two most relevant
\* features" picks from msd, and what msd holds afterwards
MLP_First(msd0) ==
    LET viu1 == Put(Zeros, ArgMax(msd0))
        msd1 == Mark(msd0, viu1)
        viu2 == Put(viu1, ArgMax(msd1))
        msd2 == Mark(msd1, viu2)
    IN  [viu |-> viu2, msd |-> msd2]

\* how much larger a network is than one on two features with one layer
MLP_Growth(viu, hu) == (Sum(viu) - 2) + (Sum(hu) - NewLayerUnits)

\* a test that also takes an equal score
MLP_Better_OrEqual(new_nsc, tmp_nsc) == new_nsc <= tmp_nsc

\* the test after every trial of the multilayer search
MLP_Better(new_nsc, tmp_nsc) == new_nsc < tmp_nsc

\* "Save data if nescience has been reduced", after the added feature
MLP_SaveFeature(f, new_nn, new_nsc, new_msd, new_viu) ==
    [f EXCEPT !.decreased = TRUE, !.tmp_nn = new_nn, !.tmp_nsc = new_nsc,
              !.tmp_msd = new_msd, !.tmp_viu = new_viu, !.tmp_hu = f.hu,
              !.saves = @ + 1]

\* a save after the added layer that keeps the ViU saved before it
MLP_SaveLayer_KeepsViU(f, new_nn, new_nsc, new_hu) ==
    [f EXCEPT !.decreased = TRUE, !.tmp_nn = new_nn, !.tmp_nsc = new_nsc,
              !.tmp_hu = new_hu, !.saves = @ + 1]

\* "Save data if nescience has been reduced", after the added layer
MLP_SaveLayer(f, new_nn, new_nsc, new_hu) ==
    [f EXCEPT !.decreased = TRUE, !.tmp_nn = new_nn, !.tmp_nsc = new_nsc,
              !.tmp_msd = f.msd, !.tmp_viu = f.viu, !.tmp_hu = new_hu,
              !.saves = @ + 1]

\* "Save data if nescience has been reduced", after the added unit
MLP_SaveUnit(f, new_nn, new_nsc, new_hu) ==
    [f EXCEPT !.decreased = TRUE, !.tmp_nn = new_nn, !.tmp_nsc = new_nsc,
              !.tmp_msd = f.msd, !.tmp_viu = f.viu, !.tmp_hu = new_hu,
              !.saves = @ + 1]

\* the locals of the last trial: which move, new_nn, new_nsc
MLP_Trial(f, move, new_nn, new_nsc) ==
    [f EXCEPT !.move = move, !.new_nn = new_nn, !.new_nsc = new_nsc]

\* the initial network: msd is the array miscoding_features() returns, which
\* is self.adjusted_ itself, so the two writes of -1 land in adjusted_
MLP_begin(family) ==
    /\ pc = family
    /\ LET first == MLP_First(adjusted_)
           hu    == <<NewLayerUnits>>
       IN  /\ adjusted_' = first.msd
           /\ \E s \in Nescience(MLP_Growth(first.viu, hu)) :
                 LET nn == Trained(family, first.viu, hu, s)
                 IN  frame' = [method |-> family,
                               msd |-> first.msd, viu |-> first.viu,
                               hu |-> hu, nn |-> nn, nsc |-> s,
                               tmp_msd |-> first.msd, tmp_viu |-> first.viu,
                               tmp_hu |-> hu, tmp_nn |-> nn, tmp_nsc |-> s,
                               decreased |-> TRUE, i |-> 0, rounds |-> 0,
                               move |-> "none", new_nn |-> None,
                               new_nsc |-> s, saves |-> 0]
    /\ pc' = "mlp_while"
    /\ UNCHANGED <<kind, auto, X_min, regular_, partial_, fam, nsc, model_,
                   viu_, ret, evaluated, scorer, result>>

\* while (decreased): decreased = False
MLP_while ==
    /\ pc = "mlp_while"
    /\ frame.decreased
    /\ frame' = [frame EXCEPT !.decreased = FALSE, !.rounds = @ + 1,
                              !.move = "none", !.new_nn = None,
                              !.new_nsc = frame.nsc, !.saves = 0]
    /\ pc' = "mlp_feature"
    /\ UNCHANGED <<kind, auto, X_min, regular_, adjusted_, partial_, fam, nsc,
                   model_, viu_, ret, evaluated, scorer, result>>

\* "Test adding a new feature"
MLP_feature ==
    /\ pc = "mlp_feature"
    /\ IF Sum(frame.viu) # Len(frame.viu)
       THEN LET new_viu == Put(frame.viu, ArgMax(frame.msd))
                new_msd == Mark(frame.msd, frame.viu)
            IN  \E new_nsc \in Nescience(MLP_Growth(new_viu, frame.hu)) :
                   LET new_nn == Trained(frame.method, new_viu, frame.hu,
                                         new_nsc)
                       f == MLP_Trial(frame, "feature", new_nn, new_nsc)
                   IN  frame' = IF MLP_Better(new_nsc, frame.tmp_nsc)
                                THEN MLP_SaveFeature(f, new_nn, new_nsc,
                                                     new_msd, new_viu)
                                ELSE f
       ELSE UNCHANGED frame
    /\ pc' = "mlp_layer"
    /\ UNCHANGED <<kind, auto, X_min, regular_, adjusted_, partial_, fam, nsc,
                   model_, viu_, ret, evaluated, scorer, result>>

\* "Test adding a new layer"
MLP_layer ==
    /\ pc = "mlp_layer"
    /\ LET new_hu == Append(frame.hu, NewLayerUnits)
       IN  \E new_nsc \in Nescience(MLP_Growth(frame.viu, new_hu)) :
              LET new_nn == Trained(frame.method, frame.viu, new_hu, new_nsc)
                  f == [MLP_Trial(frame, "layer", new_nn, new_nsc)
                           EXCEPT !.i = 1]
              IN  frame' = IF MLP_Better(new_nsc, frame.tmp_nsc)
                           THEN MLP_SaveLayer(f, new_nn, new_nsc, new_hu)
                           ELSE f
    /\ pc' = "mlp_unit"
    /\ UNCHANGED <<kind, auto, X_min, regular_, adjusted_, partial_, fam, nsc,
                   model_, viu_, ret, evaluated, scorer, result>>

\* "Test adding a new unit": one pass of "for i in np.arange(len(hu))"
MLP_unit ==
    /\ pc = "mlp_unit"
    /\ frame.i <= Len(frame.hu)
    /\ LET new_hu == [frame.hu EXCEPT ![frame.i] = @ + 1]
       IN  \E new_nsc \in Nescience(MLP_Growth(frame.viu, new_hu)) :
              LET new_nn == Trained(frame.method, frame.viu, new_hu, new_nsc)
                  f == [MLP_Trial(frame, "unit", new_nn, new_nsc)
                           EXCEPT !.i = @ + 1]
              IN  frame' = IF MLP_Better(new_nsc, frame.tmp_nsc)
                           THEN MLP_SaveUnit(f, new_nn, new_nsc, new_hu)
                           ELSE f
    /\ UNCHANGED <<pc, kind, auto, X_min, regular_, adjusted_, partial_, fam,
                   nsc, model_, viu_, ret, evaluated, scorer, result>>

\* "Update neural network", at the end of the iteration
MLP_update ==
    /\ pc = "mlp_unit"
    /\ frame.i > Len(frame.hu)
    /\ frame' = [frame EXCEPT !.nn = frame.tmp_nn, !.nsc = frame.tmp_nsc,
                              !.viu = frame.tmp_viu, !.msd = frame.tmp_msd,
                              !.hu = frame.tmp_hu, !.i = 0]
    /\ pc' = "mlp_while"
    /\ UNCHANGED <<kind, auto, X_min, regular_, adjusted_, partial_, fam, nsc,
                   model_, viu_, ret, evaluated, scorer, result>>

\* return (nsc, nn, viu)
MLP_return ==
    /\ pc = "mlp_while"
    /\ ~frame.decreased
    /\ ret' = [nsc |-> frame.nsc, model |-> frame.nn, viu |-> frame.viu]
    /\ pc' = ReturnTo
    /\ UNCHANGED <<kind, auto, X_min, regular_, adjusted_, partial_, fam, nsc,
                   model_, viu_, frame, evaluated, scorer, result>>

MLPClassifier == MLP_begin("MLPClassifier")

MLPRegressor == MLP_begin("MLPRegressor")

\* ------------------------------------------------------------------------
\* Forward feature selection: AutoRegressor.LinearRegression
\* ------------------------------------------------------------------------

\* new_nsc < nsc
LR_Better(new_nsc, old_nsc) == new_nsc < old_nsc

\* "Save data if nescience has been reduced"
LR_Save(f, new_model, new_nsc, new_msd, new_viu) ==
    [f EXCEPT !.decreased = TRUE, !.model = new_model, !.nsc = new_nsc,
              !.msd = new_msd, !.viu = new_viu]

\* the model on the most relevant feature; msd is self.adjusted_ itself,
\* so the write of -1 lands in adjusted_
LinearRegression ==
    /\ pc = "LinearRegression"
    /\ LET msd0 == adjusted_
           viu1 == Put(Zeros, ArgMax(msd0))
           msd1 == Mark(msd0, viu1)
       IN  /\ adjusted_' = msd1
           /\ \E s \in Nescience(0) :
                 frame' = [method |-> "LinearRegression",
                           msd |-> msd1, viu |-> viu1,
                           model |-> Trained("LinearRegression", viu1, <<>>, s),
                           nsc |-> s, decreased |-> TRUE, rounds |-> 0,
                           new_model |-> None, new_nsc |-> s]
    /\ pc' = "lr_while"
    /\ UNCHANGED <<kind, auto, X_min, regular_, partial_, fam, nsc, model_,
                   viu_, ret, evaluated, scorer, result>>

\* one iteration of "while (decreased)"
LR_while ==
    /\ pc = "lr_while"
    /\ frame.decreased
    /\ LET new_viu == Put(frame.viu, ArgMax(frame.msd))
           new_msd == Mark(frame.msd, new_viu)
       IN  \E new_nsc \in Nescience(Sum(new_viu) - 1) :
              LET new_model == Trained("LinearRegression", new_viu, <<>>,
                                       new_nsc)
                  f == [frame EXCEPT !.decreased = FALSE, !.rounds = @ + 1,
                                     !.new_model = new_model,
                                     !.new_nsc = new_nsc]
              IN  frame' = IF LR_Better(new_nsc, frame.nsc)
                           THEN LR_Save(f, new_model, new_nsc, new_msd,
                                        new_viu)
                           ELSE f
    /\ UNCHANGED <<pc, kind, auto, X_min, regular_, adjusted_, partial_, fam,
                   nsc, model_, viu_, ret, evaluated, scorer, result>>

\* return (nsc, model, viu)
LR_return ==
    /\ pc = "lr_while"
    /\ ~frame.decreased
    /\ ret' = [nsc |-> frame.nsc, model |-> frame.model, viu |-> frame.viu]
    /\ pc' = ReturnTo
    /\ UNCHANGED <<kind, auto, X_min, regular_, adjusted_, partial_, fam, nsc,
                   model_, viu_, frame, evaluated, scorer, result>>

\* a regressor fitted with auto=False on which LinearRegression() is
\* called, the score of a model being a function of the model
InitLinearRegression ==
    /\ pc = "LinearRegression"
    /\ kind = "regressor"
    /\ auto = FALSE
    /\ X_min = 0
    /\ \E r \in RegularInputs :
          /\ regular_ = r
          /\ adjusted_ = AdjustedOf(r)
          /\ partial_ = PartialOf(r)
    /\ fam = 1
    /\ nsc = One
    /\ model_ = None
    /\ viu_ = NoViU
    /\ ret = NoRet
    /\ frame = NoFrame
    /\ evaluated = NoneEvaluated
    /\ scorer \in Scorers \ {AnyAnswer}
    /\ result = NoResult

\* the caller runs the method again on the same fitted object
LR_again ==
    /\ pc = "returned"
    /\ ~auto
    /\ Families[fam] = "LinearRegression"
    /\ pc' = "LinearRegression"
    /\ ret' = NoRet
    /\ frame' = NoFrame
    /\ UNCHANGED <<kind, auto, X_min, regular_, adjusted_, partial_, fam, nsc,
                   model_, viu_, evaluated, scorer, result>>

NextLinearRegression ==
    \/ LinearRegression
    \/ LR_while
    \/ LR_return
    \/ LR_again

\* the call runs on: a step is taken whenever one is possible
SpecLinearRegression ==
    /\ InitLinearRegression
    /\ [][NextLinearRegression]_vars
    /\ WF_vars(NextLinearRegression)

\* ------------------------------------------------------------------------
\* Coordinate search of the polynomial-kernel SVM: AutoClassifier.SVC
\* ------------------------------------------------------------------------

\* hyper_param: hyper_param_default taken in hyper_param_order
hyper_param == <<"degree", "C", "gamma", "coef0">>

DefaultDegree == 5

\* param_value at the start; gamma is counted in units of
\* inv = 1/(p*var(X)), so the default gamma is 1 of them
SVC_Default ==
    [degree |-> DefaultDegree, C |-> OneQ, gamma |-> OneQ, coef0 |-> OneQ]

\* the same moves with the two steps of degree before the steps back
SVC_Moves_StepsFirst(param) ==
    IF param = "degree" THEN <<"+1", "+2", "-1", "-2">>
    ELSE IF param = "coef0" THEN <<"*2", "/2", "neg">>
    ELSE <<"*2", "/2">>

\* the values tried for a parameter, in the order of the nested tests
SVC_Moves(param) ==
    IF param = "degree" THEN <<"+1", "-1", "+2", "-2">>
    ELSE IF param = "coef0" THEN <<"*2", "/2", "neg">>
    ELSE <<"*2", "/2">>

\* the same values, but a step back of degree is two steps
SVC_Apply_LongStepBack(move, v) ==
    CASE move = "+1" -> v + 1
      [] move = "-1" -> v - 2
      [] move = "+2" -> v + 2
      [] move = "-2" -> v - 2
      [] move = "*2" -> MulQ(v, Q(2, 1))
      [] move = "/2" -> DivQ(v, Q(2, 1))
      [] move = "neg" -> MulQ(v, MinusOne)

\* the value a test gives to the parameter
SVC_Apply(move, v) ==
    CASE move = "+1" -> v + 1
      [] move = "-1" -> v - 1
      [] move = "+2" -> v + 2
      [] move = "-2" -> v - 2
      [] move = "*2" -> MulQ(v, Q(2, 1))
      [] move = "/2" -> DivQ(v, Q(2, 1))
      [] move = "neg" -> MulQ(v, MinusOne)

\* new_nsc < tmp_nsc
SVC_Better(new_nsc, tmp_nsc) == new_nsc < tmp_nsc

\* tmp_model.set_params(**{param: value}); tmp_model.fit(X, y)
SVC_SetAndFit(tmp_model, param, value) ==
    LET params == [tmp_model.params EXCEPT ![param] = value]
    IN  [params |-> params, fitted |-> params]

\* a working model left with the value of the last test
SVC_Restore_Keeps(tmp_model, param, value) == tmp_model

\* tmp_model.set_params(**{param: param_value[param]}), without a fit
SVC_Restore(tmp_model, param, value) ==
    [tmp_model EXCEPT !.params[param] = value]

\* log2 of a power of two n/1 or 1/d
RECURSIVE Log2(_)
Log2(q) ==
    IF q = OneQ THEN 0
    ELSE IF q[1] > 1 THEN 1 + Log2(Q(q[1] \div 2, q[2]))
    ELSE Log2(Q(q[1], q[2] \div 2)) - 1

\* far below every step count of a positive value
Below == 100

\* how many moves the value of a parameter is above its default; a
\* negative coef0 is below every positive one
SVC_Steps(param, v) ==
    IF param = "degree" THEN v - DefaultDegree
    ELSE IF v[1] < 0 THEN (0 - Below) - Log2(Q(0 - v[1], v[2]))
    ELSE Log2(v)

\* the growth a given scorer sees in a candidate: the steps of the one
\* parameter it depends on, in the direction it rewards
SVC_Growth(objective, params) ==
    objective.dir * SVC_Steps(objective.param, params[objective.param])

\* the parameter and the direction a scorer can depend on; a scorer that
\* answers anything depends on none and is given the first, and so is
\* every scorer inside fit
SVC_Objectives ==
    IF scorer.any \/ auto THEN {[param |-> "degree", dir |-> 1]}
    ELSE [param : {"degree", "C", "gamma", "coef0"}, dir : {-1, 1}]

\* the defaults, the first model and its nescience
SVC_begin ==
    /\ pc = "SVC"
    /\ \E objective \in SVC_Objectives :
       \E s \in Nescience(SVC_Growth(objective, SVC_Default)) :
          frame' = [method |-> "SVC", objective |-> objective,
                    param_value |-> SVC_Default,
                    tmp_model |-> [params |-> SVC_Default,
                                   fitted |-> SVC_Default],
                    tmp_nsc |-> s, new_nsc |-> s, scored |-> SVC_Default,
                    decreased |-> TRUE, p |-> 0, m |-> 0, passes |-> 0,
                    log |-> <<>>]
    /\ pc' = "svc_while"
    /\ UNCHANGED <<kind, auto, X_min, regular_, adjusted_, partial_, fam, nsc,
                   model_, viu_, ret, evaluated, scorer, result>>

\* while (decreased): decreased = False, then the first parameter
SVC_while ==
    /\ pc = "svc_while"
    /\ frame.decreased
    /\ frame' = [frame EXCEPT !.decreased = FALSE, !.p = 1, !.m = 1,
                              !.passes = @ + 1, !.log = <<>>]
    /\ pc' = "svc_test"
    /\ UNCHANGED <<kind, auto, X_min, regular_, adjusted_, partial_, fam, nsc,
                   model_, viu_, ret, evaluated, scorer, result>>

\* one test of the nest: set the value, fit, score, accept or go on
SVC_test ==
    /\ pc = "svc_test"
    /\ frame.p <= Len(hyper_param)
    /\ LET param == hyper_param[frame.p]
           move  == SVC_Moves(param)[frame.m]
           value == SVC_Apply(move, frame.param_value[param])
           model == SVC_SetAndFit(frame.tmp_model, param, value)
           last  == frame.m = Len(SVC_Moves(param))
       IN  \E new_nsc \in Nescience(SVC_Growth(frame.objective,
                                                model.params)) :
              IF SVC_Better(new_nsc, frame.tmp_nsc)
              THEN frame' = [frame EXCEPT
                       !.tmp_model = model,
                       !.tmp_nsc = new_nsc,
                       !.new_nsc = new_nsc,
                       !.scored = model.params,
                       !.param_value[param] = value,
                       !.decreased = TRUE,
                       !.p = @ + 1, !.m = 1,
                       !.log = Append(@, <<param, move, TRUE>>)]
              ELSE frame' = [frame EXCEPT
                       !.new_nsc = new_nsc,
                       !.tmp_model =
                           IF last \/ move = "/2"
                           THEN SVC_Restore(model, param,
                                            frame.param_value[param])
                           ELSE model,
                       !.p = IF last THEN @ + 1 ELSE @,
                       !.m = IF last THEN 1 ELSE @ + 1,
                       !.log = Append(@, <<param, move, FALSE>>)]
    /\ pc' = IF frame'.p > Len(hyper_param) THEN "svc_while" ELSE "svc_test"
    /\ UNCHANGED <<kind, auto, X_min, regular_, adjusted_, partial_, fam, nsc,
                   model_, viu_, ret, evaluated, scorer, result>>

\* model = tmp_model.fit(X, y); nsc = tmp_nsc; self.model_ = model when
\* auto is False; return (nsc, model, None)
SVC_return ==
    /\ pc = "svc_while"
    /\ ~frame.decreased
    /\ LET fitted == [frame.tmp_model EXCEPT !.fitted = frame.tmp_model.params]
           model  == Trained("SVC", AllCols, fitted.fitted,
                             IF frame.scored = fitted.fitted
                             THEN frame.tmp_nsc ELSE -1)
       IN  /\ frame' = [frame EXCEPT !.tmp_model = fitted]
           /\ ret' = [nsc |-> frame.tmp_nsc, model |-> model, viu |-> NoViU]
           /\ model_' = IF auto = FALSE THEN model ELSE model_
    /\ pc' = ReturnTo
    /\ UNCHANGED <<kind, auto, X_min, regular_, adjusted_, partial_, fam, nsc,
                   viu_, evaluated, scorer, result>>

SVC == SVC_begin

\* ------------------------------------------------------------------------
\* The fit of AutoClassifier and of AutoRegressor
\* ------------------------------------------------------------------------

Next ==
    \/ fit
    \/ fit_for
    \/ fit_update
    \/ call
    \/ MultinomialNB
    \/ LinearSVC
    \/ LinearSVR
    \/ DecisionTreeClassifier
    \/ DecisionTreeRegressor
    \/ DecisionTree_for
    \/ DecisionTree_return
    \/ SVC
    \/ SVC_while
    \/ SVC_test
    \/ SVC_return
    \/ MLPClassifier
    \/ MLPRegressor
    \/ MLP_while
    \/ MLP_feature
    \/ MLP_layer
    \/ MLP_unit
    \/ MLP_update
    \/ MLP_return
    \/ LinearRegression
    \/ LR_while
    \/ LR_return

Spec == Init /\ [][Next]_vars

\* ------------------------------------------------------------------------
\* A Miscoding instance used on its own
\* ------------------------------------------------------------------------

Modes == {"regular", "adjusted", "partial", "other"}

\* Miscoding(...) constructed, fit not yet called
InitMiscoding ==
    /\ pc = "Miscoding"
    /\ kind = "classifier"
    /\ auto = FALSE
    /\ X_min = 0
    /\ regular_ = <<>>
    /\ adjusted_ = <<>>
    /\ partial_ = <<>>
    /\ fam = 0
    /\ nsc = One
    /\ model_ = None
    /\ viu_ = NoViU
    /\ ret = NoRet
    /\ frame = NoFrame
    /\ evaluated = NoneEvaluated
    /\ scorer = AnyAnswer
    /\ result = NoResult

\* Miscoding.fit(X, y): regular_ from the dataset, then adjusted_, partial_
Miscoding_fit ==
    /\ pc \in {"Miscoding", "Miscoding_fitted"}
    /\ \E r \in RegularInputs :
          /\ regular_' = r
          /\ adjusted_' = AdjustedOf(r)
          /\ partial_' = PartialOf(r)
    /\ result' = NoResult
    /\ pc' = "Miscoding_fitted"
    /\ UNCHANGED <<kind, auto, X_min, fam, nsc, model_, viu_, ret, frame,
                   evaluated, scorer>>

\* Miscoding.miscoding_features(mode) on the fitted instance
miscoding_features ==
    /\ pc = "Miscoding_fitted"
    /\ \E mode \in Modes :
          result' = [call |-> "miscoding_features", mode |-> mode,
                     subset |-> <<>>,
                     value |-> CASE mode = "regular" -> regular_
                                 [] mode = "adjusted" -> adjusted_
                                 [] mode = "partial" -> partial_
                                 [] OTHER -> <<>>,
                     error |-> IF mode = "other" THEN "ValueError"
                               ELSE "none"]
    /\ UNCHANGED <<pc, kind, auto, X_min, regular_, adjusted_, partial_, fam,
                   nsc, model_, viu_, ret, frame, evaluated, scorer>>

\* the 0/1 masks over the features
Subsets == [1..P -> {0, 1}]

\* np.sum(self.partial_[self.partial_ < 0])
RECURSIVE SumNegative(_)
SumNegative(v) ==
    IF Len(v) = 0 THEN Zero
    ELSE AddQ(IF LessQ(v[1], Zero) THEN v[1] ELSE Zero, SumNegative(Tail(v)))

\* np.dot(subset, self.partial_)
RECURSIVE Dot(_, _)
Dot(subset, v) ==
    IF Len(v) = 0 THEN Zero
    ELSE AddQ(MulQ(Q(subset[1], 1), v[1]), Dot(Tail(subset), Tail(v)))

\* the same value, never floored
MiscodingSubset_NoFloor(subset, partial) ==
    SubQ(AddQ(OneQ, SumNegative(partial)), Dot(subset, partial))

\* the value miscoding_subset computes from partial_
\* a score that adds the dot product to the top value
MiscodingSubset_AddsDot(subset, partial) ==
    LET top_mscd  == AddQ(OneQ, SumNegative(partial))
        miscoding == AddQ(top_mscd, Dot(subset, partial))
    IN  IF LessQ(miscoding, Zero) THEN Zero ELSE miscoding

MiscodingSubset(subset, partial) ==
    LET top_mscd  == AddQ(OneQ, SumNegative(partial))
        miscoding == SubQ(top_mscd, Dot(subset, partial))
    IN  IF LessQ(miscoding, Zero) THEN Zero ELSE miscoding

\* Miscoding.miscoding_subset(subset) on the fitted instance
miscoding_subset ==
    /\ pc = "Miscoding_fitted"
    /\ \E subset \in Subsets :
          result' = [call |-> "miscoding_subset", mode |-> "none",
                     subset |-> subset,
                     value |-> <<MiscodingSubset(subset, partial_)>>,
                     error |-> "none"]
    /\ UNCHANGED <<pc, kind, auto, X_min, regular_, adjusted_, partial_, fam,
                   nsc, model_, viu_, ret, frame, evaluated, scorer>>

\* most split nodes of a tree handed to miscoding_model
MaxSplits == 2

\* tree_.feature of a leaf
TREE_UNDEFINED == -2

\* tree_.feature of the trees with k split nodes: one entry per node in
\* depth-first order, the feature (from 0) of a split node, -2 for a leaf
TreeFeatures(k) ==
    {f \in [1..(2 * k + 1) -> {TREE_UNDEFINED} \cup 0..(P - 1)] :
        LET splits(n) == Cardinality({j \in 1..n : f[j] >= 0})
        IN  /\ splits(2 * k + 1) = k
            /\ \A n \in 1..(2 * k) : n - splits(n) <= splits(n)}

\* the models miscoding_model can be handed: the nine kinds it names, an
\* SVC with another kernel, and estimators of other classes
ModelInputs ==
    [class : {"MultinomialNB", "MLPClassifier", "LinearRegression",
              "LinearSVR", "MLPRegressor", "LinearSVC", "KMeans"},
     kernel : {"none"}, feature : {<<>>}]
    \cup [class : {"SVC"}, kernel : {"linear", "poly", "rbf"},
          feature : {<<>>}]
    \cup [class : {"DecisionTreeClassifier", "DecisionTreeRegressor"},
          kernel : {"none"},
          feature : UNION {TreeFeatures(k) : k \in 0..MaxSplits}]

\* a marking that takes every entry of tree_.feature for an index: the -2
\* of a leaf, as an index from the end, marks the last feature but one
TreeInUse_LeavesToo(feature) ==
    [i \in 1..P |->
        IF \E n \in 1..Len(feature) :
              \/ feature[n] = i - 1
              \/ feature[n] < 0 /\ P + feature[n] = i - 1
        THEN 1 ELSE 0]

\* _DecisionTreeClassifier, _DecisionTreeRegressor: attr_in_use[i] = 1 for
\* i in set(tree_.feature[tree_.feature >= 0])
TreeInUse(feature) ==
    [i \in 1..P |->
        IF \E n \in 1..Len(feature) : feature[n] >= 0 /\ feature[n] = i - 1
        THEN 1 ELSE 0]

\* the isinstance chain of miscoding_model: the attributes in use, or no
\* marking when no branch takes the model
AttrInUse(model) ==
    CASE model.class = "MultinomialNB" -> AllCols
      [] model.class = "DecisionTreeClassifier" -> TreeInUse(model.feature)
      [] model.class = "SVC" /\ model.kernel = "linear" -> AllCols
      [] model.class = "SVC" /\ model.kernel = "poly" -> AllCols
      [] model.class = "MLPClassifier" -> AllCols
      [] model.class = "LinearRegression" -> AllCols
      [] model.class = "DecisionTreeRegressor" -> TreeInUse(model.feature)
      [] model.class = "LinearSVR" -> AllCols
      [] model.class = "MLPRegressor" -> AllCols
      [] OTHER -> <<>>

\* a fitted instance, and in frame.model the model whose miscoding is asked
InitModel ==
    /\ pc = "Miscoding_fitted"
    /\ kind = "classifier"
    /\ auto = FALSE
    /\ X_min = 0
    /\ \E r \in RegularInputs :
          /\ regular_ = r
          /\ adjusted_ = AdjustedOf(r)
          /\ partial_ = PartialOf(r)
    /\ fam = 0
    /\ nsc = One
    /\ model_ = None
    /\ viu_ = NoViU
    /\ ret = NoRet
    /\ \E model \in ModelInputs :
          frame = [method |-> "Miscoding", model |-> model]
    /\ evaluated = NoneEvaluated
    /\ scorer = AnyAnswer
    /\ result = NoResult

\* Miscoding.miscoding_model(model) on the fitted instance
miscoding_model ==
    /\ pc = "Miscoding_fitted"
    /\ LET model  == frame.model
           subset == AttrInUse(model)
       IN  result' =
                 IF subset = <<>>
                 THEN [call |-> "miscoding_model", mode |-> "none",
                       subset |-> <<>>, value |-> <<>>,
                       error |-> "NotImplementedError", model |-> model]
                 ELSE [call |-> "miscoding_model", mode |-> "none",
                       subset |-> subset,
                       value |-> <<MiscodingSubset(subset, partial_)>>,
                       error |-> "none", model |-> model]
    /\ UNCHANGED <<pc, kind, auto, X_min, regular_, adjusted_, partial_, fam,
                   nsc, model_, viu_, ret, frame, evaluated, scorer>>

\* the unordered pairs of features, and the miscoding of one feature given
\* the other that the columns of X_ can have for each of them
FeaturePairs == {ij \in (1..P) \X (1..P) : ij[1] < ij[2]}
PairInputs == [FeaturePairs -> {Q(r, NscUnit) : r \in 0..NscUnit}]

\* the regular matrix: zeros, then miscoding[i, j] = miscoding[j, i] = mscd
\* for every i < j
RegularMatrix(mscd) ==
    [i \in 1..P |-> [j \in 1..P |->
        IF i < j THEN mscd[<<i, j>>]
        ELSE IF j < i THEN mscd[<<j, i>>]
        ELSE Zero]]

\* rows of 1 - miscoding that are left as they are
NormalizedMatrix_NotDivided(miscoding) ==
    [i \in 1..P |-> [j \in 1..P |-> SubQ(OneQ, miscoding[i][j])]]

\* normalized[i, :] = 1 - miscoding[i, :], divided by its sum
NormalizedMatrix(miscoding) ==
    [i \in 1..P |->
        LET row == [j \in 1..P |-> SubQ(OneQ, miscoding[i][j])]
        IN  [j \in 1..P |-> DivQ(row[j], SumQ(row))]]

\* a fitted instance; frame.mscd holds, for every pair of columns of X_, the
\* miscoding of one given the other
InitMatrix ==
    /\ pc = "Miscoding_fitted"
    /\ kind = "classifier"
    /\ auto = FALSE
    /\ X_min = 0
    /\ regular_ = <<>>
    /\ adjusted_ = <<>>
    /\ partial_ = <<>>
    /\ fam = 0
    /\ nsc = One
    /\ model_ = None
    /\ viu_ = NoViU
    /\ ret = NoRet
    /\ \E mscd \in PairInputs : frame = [method |-> "Miscoding", mscd |-> mscd]
    /\ evaluated = NoneEvaluated
    /\ scorer = AnyAnswer
    /\ result = NoResult

\* Miscoding.features_matrix(mode) on the fitted instance
features_matrix ==
    /\ pc = "Miscoding_fitted"
    /\ \E mode \in Modes :
          LET mscd      == frame.mscd
              miscoding == RegularMatrix(mscd)
          IN  result' =
                 [call |-> "features_matrix", mode |-> mode,
                  subset |-> <<>>,
                  value |-> CASE mode = "regular" -> miscoding
                              [] mode = "adjusted" ->
                                     NormalizedMatrix(miscoding)
                              [] OTHER -> <<>>,
                  error |-> IF mode \in {"regular", "adjusted"}
                            THEN "none" ELSE "ValueError",
                  mscd |-> mscd]
    /\ UNCHANGED <<pc, kind, auto, X_min, regular_, adjusted_, partial_, fam,
                   nsc, model_, viu_, ret, frame, evaluated, scorer>>

NextModel == miscoding_model

SpecModel == InitModel /\ [][NextModel]_vars

NextMatrix == features_matrix

SpecMatrix == InitMatrix /\ [][NextMatrix]_vars

NextMiscoding ==
    \/ Miscoding_fit
    \/ miscoding_features
    \/ miscoding_subset

SpecMiscoding == InitMiscoding /\ [][NextMiscoding]_vars

\* ------------------------------------------------------------------------
\* Properties: the selection of fit
\* ------------------------------------------------------------------------

\* fit with auto=True has returned
FitDone == pc = "done" /\ auto

\* C1: after fit with auto=True in which families were evaluated, model_
\* and viu_ are those of the evaluated family with the smallest nescience,
\* the earliest one in list order when several share that score.
C1_RetainsEarliestLowest ==
    (FitDone /\ evaluated.families # <<>>) =>
        /\ model_ # None
        /\ model_.family = evaluated.earliest
        /\ model_.nsc = evaluated.lowest
        /\ nsc = evaluated.lowest
        /\ model_.cols = ColsOf(viu_)

\* ------------------------------------------------------------------------
\* Properties: the best-so-far tuples
\* ------------------------------------------------------------------------

\* score, model, ViU and layer shape are those of one candidate
OneCandidate(t_nsc, t_model, t_viu, t_hu) ==
    /\ t_model.nsc = t_nsc
    /\ t_model.cols = t_viu
    /\ t_model.par = t_hu

GlobalTuple == <<nsc, model_, viu_>>
MLP_Tuple(f) == <<f.nsc, f.nn, f.viu, f.hu>>
MLP_Tmp(f) == <<f.tmp_nsc, f.tmp_nn, f.tmp_viu, f.tmp_hu>>
LR_Tuple(f) == <<f.nsc, f.model, f.viu>>
Tree_Tuple(f) == <<f.best_nsc, f.best_model>>

\* every best-so-far tuple is the initial one or belongs to one candidate
TuplesBelongToOneCandidate ==
    /\ frame.method \in MLPFamilies =>
          /\ OneCandidate(frame.nsc, frame.nn, frame.viu, frame.hu)
          /\ OneCandidate(frame.tmp_nsc, frame.tmp_nn, frame.tmp_viu,
                          frame.tmp_hu)
    /\ frame.method = "LinearRegression" =>
          OneCandidate(frame.nsc, frame.model, frame.viu, <<>>)
    /\ frame.method \in TreeFamilies =>
          IF frame.best_model = None THEN frame.best_nsc = One
          ELSE /\ frame.best_model.nsc = frame.best_nsc
               /\ frame.best_model.cols = AllCols
    /\ (auto /\ pc # "new") =>
          IF model_ = None THEN nsc = One /\ viu_ = NoViU
          ELSE /\ model_.nsc = nsc
               /\ model_.cols = ColsOf(viu_)
               /\ (model_.family \in MLPFamilies =>
                     Len(model_.par) >= 1)

\* a best-so-far tuple changes only to the whole tuple of a candidate that
\* has just been scored strictly lower
TuplesReplacedWhole ==
    /\ (auto /\ pc # "new" /\ GlobalTuple' # GlobalTuple) =>
          /\ pc = "update"
          /\ nsc' < nsc
          /\ GlobalTuple' = <<ret.nsc, ret.model, ret.viu>>
    /\ (frame.method \in MLPFamilies /\ frame'.method = frame.method) =>
          /\ MLP_Tmp(frame') # MLP_Tmp(frame) =>
                /\ frame'.tmp_nsc < frame.tmp_nsc
                /\ MLP_Tmp(frame') = <<frame'.new_nsc, frame'.new_nn,
                                       frame'.new_nn.cols, frame'.new_nn.par>>
          /\ MLP_Tuple(frame') # MLP_Tuple(frame) =>
                /\ frame'.nsc < frame.nsc
                /\ MLP_Tuple(frame') = MLP_Tmp(frame)
    /\ (frame.method = "LinearRegression" /\ frame'.method = frame.method) =>
          (LR_Tuple(frame') # LR_Tuple(frame) =>
                /\ frame'.nsc < frame.nsc
                /\ LR_Tuple(frame') = <<frame'.new_nsc, frame'.new_model,
                                        frame'.new_model.cols>>)
    /\ (frame.method \in TreeFamilies /\ frame'.method = frame.method) =>
          (Tree_Tuple(frame') # Tree_Tuple(frame) =>
                /\ frame'.best_nsc < frame.best_nsc
                /\ frame'.best_model.nsc = frame'.best_nsc)

MLP_InIteration ==
    /\ frame.method \in MLPFamilies
    /\ pc \in {"mlp_feature", "mlp_layer", "mlp_unit"}

\* an iteration has run all its trials
MLP_EndOfIteration ==
    /\ frame.method \in MLPFamilies
    /\ pc = "mlp_unit"
    /\ frame.i > Len(frame.hu)

\* the candidate of a trial is one move away from the incumbent
OneMoveAway(trial, f) ==
    CASE trial.move = "feature" ->
            /\ trial.nn.par = f.hu
            /\ \A i \in 1..Len(f.viu) : f.viu[i] = 1 => trial.nn.cols[i] = 1
            /\ Sum(trial.nn.cols) <= Sum(f.viu) + 1
      [] trial.move = "layer" ->
            /\ trial.nn.cols = f.viu
            /\ trial.nn.par = Append(f.hu, 3)
      [] trial.move = "unit" ->
            /\ trial.nn.cols = f.viu
            /\ Len(trial.nn.par) = Len(f.hu)
            /\ Sum(trial.nn.par) = Sum(f.hu) + 1

\* an improving move, once found, is the result of the iteration
\* whatever the later moves score
FirstImprovingMoveIsKept ==
    (MLP_InIteration /\ frame.tmp_nsc < frame.nsc
        /\ frame'.method = frame.method) =>
            MLP_Tmp(frame') = MLP_Tmp(frame)

\* the search goes on after an iteration that improved and returns the
\* incumbent after the first one that did not
StopsWhenNoMoveImproves ==
    /\ MLP_EndOfIteration =>
          (frame.decreased <=> frame.tmp_nsc < frame.nsc)
    /\ (frame.method \in MLPFamilies /\ pc = "mlp_while") =>
          IF frame.decreased THEN pc' = "mlp_feature"
          ELSE /\ pc' \in {"update", "returned"}
               /\ ret' = [nsc |-> frame.nsc, model |-> frame.nn,
                          viu |-> frame.viu]

MoveAt(at) ==
    CASE at = "mlp_feature" -> "feature"
      [] at = "mlp_layer" -> "layer"
      [] at = "mlp_unit" -> "unit"

\* a step of an iteration that trains and scores a candidate
MLP_Tries ==
    /\ MLP_InIteration
    /\ pc' # "mlp_while"
    /\ frame' # frame

\* the candidate held for the end of the iteration scores strictly below
\* the incumbent and is one move away from it; while no trial has scored
\* below the incumbent it is the incumbent
HeldImprovesByOneMove ==
    MLP_InIteration =>
        IF frame.saves = 0
        THEN /\ ~frame.decreased
             /\ MLP_Tmp(frame) = MLP_Tuple(frame)
        ELSE /\ frame.decreased
             /\ frame.tmp_nsc < frame.nsc
             /\ \E move \in {"feature", "layer", "unit"} :
                   OneMoveAway([move |-> move, nn |-> frame.tmp_nn], frame)

\* the trials of an iteration are its moves in order, each one move away
\* from the same incumbent, and a trial takes the place of the candidate
\* held exactly when it scores strictly below it
LowerTrialReplacesHeld ==
    MLP_Tries =>
        /\ frame'.move = MoveAt(pc)
        /\ pc = "mlp_feature" => pc' = "mlp_layer"
        /\ pc = "mlp_layer" => pc' = "mlp_unit" /\ frame'.i = 1
        /\ pc = "mlp_unit" => pc' = "mlp_unit" /\ frame'.i = frame.i + 1
        /\ MLP_Tuple(frame') = MLP_Tuple(frame)
        /\ OneMoveAway([move |-> frame'.move, nn |-> frame'.new_nn], frame)
        /\ frame'.new_nsc = frame'.new_nn.nsc
        /\ IF frame'.new_nsc < frame.tmp_nsc
           THEN /\ frame'.tmp_nn = frame'.new_nn
                /\ frame'.tmp_nsc = frame'.new_nsc
                /\ frame'.tmp_viu = frame'.new_nn.cols
                /\ frame'.tmp_hu = frame'.new_nn.par
           ELSE MLP_Tmp(frame') = MLP_Tmp(frame)

MLP_AtStart ==
    /\ frame.method \in MLPFamilies
    /\ pc = "mlp_while"
    /\ frame.rounds = 0

\* viu marks two features, none of them less relevant than one left out
TwoMostRelevant(viu, relevance) ==
    /\ Sum(viu) = 2
    /\ \A i, j \in 1..Len(viu) :
          (viu[i] = 1 /\ viu[j] = 0) => ~LessQ(relevance[i], relevance[j])

\* C4: inside fit, the multilayer search starts from the network on the
\* two features with the highest adjusted relevance of the fitted
\* dataset, with one hidden layer of 3 units.
C4_StartsFromTwoMostRelevant ==
    (auto /\ MLP_AtStart) =>
        /\ TwoMostRelevant(frame.viu, AdjustedOf(regular_))
        /\ frame.hu = <<3>>
        /\ frame.nn.cols = frame.viu
        /\ frame.nn.par = frame.hu

\* ------------------------------------------------------------------------
\* Properties: the fitted profile during the searches
\* ------------------------------------------------------------------------

\* C5: no step of a search modifies the fitted Miscoding profile: after
\* any sequence of local searches regular, adjusted and partial are the
\* vectors Miscoding.fit computed.
C5_ProfileUnchanged ==
    regular_ # <<>> =>
        /\ adjusted_ = AdjustedOf(regular_)
        /\ partial_ = PartialOf(regular_)

\* ------------------------------------------------------------------------
\* Properties: the tree search
\* ------------------------------------------------------------------------

\* the lowest of 1 and the scores of the candidates evaluated before the
\* k-th alpha
BestBefore(log, k) ==
    LET scores == {One} \cup
                  {log[j].nsc : j \in {i \in 1..(k - 1) :
                                          log[i].what # "skip"}}
    IN  CHOOSE b \in scores : \A c \in scores : b <= c

\* the alphas at which the walk found a new best
Improvements(log) == {k \in 1..Len(log) : log[k].what = "better"}

\* the tree search has returned
Tree_Returned ==
    /\ frame.method \in TreeFamilies
    /\ pc \in {"update", "returned"}

\* C6: the tree search takes the alphas of the pruning path from the most
\* pruned tree on, skips a tree with the node count of the one before,
\* keeps a candidate that scores strictly below the best so far, and at
\* the first one that does not it stops, evaluates nothing more and
\* returns the best score and model found before it.
C6_StopsAtFirstNonImprovement ==
    frame.method \in TreeFamilies =>
        LET log  == frame.log
            path == frame.path
        IN  /\ Len(log) <= Len(path)
            /\ \A k \in 1..Len(log) :
                  /\ log[k].k = k
                  /\ log[k].nodes = path[k]
                  /\ log[k].what = "skip" <=>
                        (k > 1 /\ path[k] = path[k - 1])
                  /\ log[k].what = "better" <=>
                        /\ ~(k > 1 /\ path[k] = path[k - 1])
                        /\ log[k].nsc < BestBefore(log, k)
                  /\ log[k].what = "break" => k = Len(log)
            /\ frame.stop <=>
                  (log # <<>> /\ log[Len(log)].what = "break")
            /\ IF Improvements(log) = {}
               THEN frame.best_nsc = One /\ frame.best_model = None
               ELSE LET last == CHOOSE k \in Improvements(log) :
                                    \A j \in Improvements(log) : j <= k
                    IN  /\ frame.best_nsc = log[last].nsc
                        /\ frame.best_model.par = last
                        /\ frame.best_model.nsc = log[last].nsc
            /\ Tree_Returned =>
                  /\ frame.stop \/ Len(log) = Len(path)
                  /\ ret = [nsc |-> frame.best_nsc,
                            model |-> frame.best_model, viu |-> NoViU]

\* a walk that kept the first tree, skipped the second and stopped at the
\* third, returning the first
C6_Witness ==
    /\ Tree_Returned
    /\ Len(frame.log) = 3
    /\ frame.log[1].what = "better"
    /\ frame.log[2].what = "skip"
    /\ frame.log[3].what = "break"
    /\ Len(frame.path) >= 3
    /\ ret.model = frame.best_model
    /\ ret.model.par = 1

\* ------------------------------------------------------------------------
\* Properties: the kernel-SVM coordinate search
\* ------------------------------------------------------------------------

\* the moves per parameter as the claim lists them, and with the sign
\* flip of coef0 that follows its two rejected moves
MovesAsStated ==
    [degree |-> <<"+1", "-1", "+2", "-2">>, C |-> <<"*2", "/2">>,
     gamma |-> <<"*2", "/2">>, coef0 |-> <<"*2", "/2">>]

MovesWithSignFlip ==
    [MovesAsStated EXCEPT !.coef0 = <<"*2", "/2", "neg">>]

ParameterOrder == <<"degree", "C", "gamma", "coef0">>

\* where a pass stands after the trials log[k..], when it stood at move m
\* of parameter p before them: <<p, m>>, or <<0, 0>> if some trial is not
\* the one due (the next move of the parameter after a rejection, the
\* first move of the next parameter after an acceptance or the last move)
RECURSIVE PassPosition(_, _, _, _, _)
PassPosition(moves, log, k, p, m) ==
    IF k > Len(log) THEN <<p, m>>
    ELSE IF p > Len(ParameterOrder) THEN <<0, 0>>
    ELSE LET param == ParameterOrder[p]
         IN  IF log[k][1] # param \/ log[k][2] # moves[param][m]
             THEN <<0, 0>>
             ELSE IF log[k][3] \/ m = Len(moves[param])
             THEN PassPosition(moves, log, k + 1, p + 1, 1)
             ELSE PassPosition(moves, log, k + 1, p, m + 1)

\* the value a move gives to a parameter
Moved(move, v) ==
    CASE move = "+1" -> v + 1
      [] move = "-1" -> v - 1
      [] move = "+2" -> v + 2
      [] move = "-2" -> v - 2
      [] move = "*2" -> <<2 * v[1], v[2]>>
      [] move = "/2" -> <<v[1], 2 * v[2]>>
      [] move = "neg" -> <<0 - v[1], v[2]>>

\* the same value of a parameter: an integer degree, a rational otherwise
SameValue(param, a, b) ==
    IF param = "degree" THEN a = b ELSE a[1] * b[2] = b[1] * a[2]

\* the trials of every pass follow the order of the given moves, and a
\* pass that has ended has gone through the four parameters
PassFollows(moves) ==
    frame.method = "SVC" =>
        /\ PassPosition(moves, frame.log, 1, 1, 1) # <<0, 0>>
        /\ (pc # "svc_test" /\ frame.passes >= 1) =>
              /\ PassPosition(moves, frame.log, 1, 1, 1) =
                     <<Len(ParameterOrder) + 1, 1>>
              /\ frame.decreased <=>
                     \E k \in 1..Len(frame.log) : frame.log[k][3]

\* a trial is accepted exactly when it scores strictly below the
\* incumbent, and then its value and score become the incumbent's; the
\* search goes on after a pass with an acceptance and returns after the
\* first pass without one
AcceptsStrictlySmaller ==
    /\ (frame.method = "SVC" /\ pc = "svc_test") =>
          LET trial == frame'.log[Len(frame'.log)]
              old   == frame.param_value[trial[1]]
              new   == frame'.param_value[trial[1]]
          IN  /\ Len(frame'.log) = Len(frame.log) + 1
              /\ trial[3] <=> frame'.new_nsc < frame.tmp_nsc
              /\ \A q \in DOMAIN frame.param_value :
                    q # trial[1] =>
                        frame'.param_value[q] = frame.param_value[q]
              /\ IF trial[3]
                 THEN /\ frame'.tmp_nsc = frame'.new_nsc
                      /\ SameValue(trial[1], new, Moved(trial[2], old))
                 ELSE /\ frame'.tmp_nsc = frame.tmp_nsc
                      /\ new = old
    /\ (frame.method = "SVC" /\ pc = "svc_while") =>
          IF frame.decreased THEN pc' = "svc_test"
          ELSE /\ pc' \in {"update", "returned"}
               /\ ret'.nsc = frame.tmp_nsc
               /\ ret'.model.par = frame.param_value

\* C7 (as stated): each pass of the SVM search visits degree, C, gamma,
\* coef0 in that order; the moves tried are +1, -1, +2, -2 for degree and
\* x2 then /2 for every other parameter; the first move scoring strictly
\* below the incumbent is accepted and ends the moves of its parameter
\* for the pass; the search stops after the first pass without acceptance.
C7_TwoMovesForEveryOtherParameter ==
    []PassFollows(MovesAsStated) /\ [][AcceptsStrictlySmaller]_vars

\* C7 (amended): as stated, except that coef0 has a third move: when its
\* x2 and /2 moves are both rejected, the sign flip -coef0 is tried, and
\* accepted if it scores strictly below the incumbent.
C7_SignFlipForCoef0 ==
    []PassFollows(MovesWithSignFlip) /\ [][AcceptsStrictlySmaller]_vars

\* a pass in which the sign flip of coef0 was tried and accepted
C7_Witness ==
    /\ frame.method = "SVC"
    /\ frame.log # <<>>
    /\ frame.log[Len(frame.log)] = <<"coef0", "neg", TRUE>>
    /\ frame.param_value.coef0[1] < 0
    /\ frame.tmp_nsc = frame.new_nsc

\* the SVM search has returned
SVC_Returned ==
    /\ frame.method = "SVC"
    /\ pc \in {"update", "returned"}

\* the value at which a scorer with base b stops improving, when it
\* improves by one step of score for every move of its parameter in its
\* direction: b moves away from the default
Boundary(objective, b) ==
    IF objective.param = "degree" THEN 5 + objective.dir * b
    ELSE IF objective.dir = 1 THEN <<2 ^ b, 1>> ELSE <<1, 2 ^ b>>

\* the defaults: degree 5, C 1, gamma 1 (in units of 1/(p*var(X))), coef0 1
Defaults == [degree |-> 5, C |-> <<1, 1>>, gamma |-> <<1, 1>>,
             coef0 |-> <<1, 1>>]

\* C8: with a scorer that depends on one parameter only and improves with
\* every move of it in one direction up to a boundary value, the SVM
\* search returns the model with that parameter at the boundary and every
\* other parameter at its default.
C8_ConvergesToBoundary ==
    (SVC_Returned /\ ~scorer.any /\ scorer.gain = 1) =>
        /\ ret.model.par =
              [Defaults EXCEPT ![frame.objective.param] =
                                   Boundary(frame.objective, scorer.base)]
        /\ ret.nsc = 0
        /\ frame.param_value = ret.model.par

\* a search that halved coef0 down to its boundary, two moves below 1
C8_Witness ==
    /\ SVC_Returned
    /\ ~scorer.any
    /\ scorer.gain = 1
    /\ scorer.base = 2
    /\ frame.objective = [param |-> "coef0", dir |-> -1]
    /\ ret.model.par = [Defaults EXCEPT !.coef0 = <<1, 4>>]

\* ------------------------------------------------------------------------
\* Properties: the skipped family
\* ------------------------------------------------------------------------

\* the families fit has received a tuple from, in order
EvaluatedFamilies == evaluated.families

\* the classifiers fit is to evaluate: all of them, or all but the
\* count-based one when X holds a negative value
ToEvaluate ==
    IF X_min < 0
    THEN <<"DecisionTreeClassifier", "LinearSVC", "SVC", "MLPClassifier">>
    ELSE <<"MultinomialNB", "DecisionTreeClassifier", "LinearSVC", "SVC",
           "MLPClassifier">>

\* C9: when X holds a negative value AutoClassifier.fit evaluates every
\* family but MultinomialNB, in list order, and returns; when X holds
\* none it evaluates MultinomialNB as well.
C9_SkipsCountFamilyOnNegative ==
    (kind = "classifier" /\ auto /\ pc # "new") =>
        /\ Len(EvaluatedFamilies) <= Len(ToEvaluate)
        /\ EvaluatedFamilies = SubSeq(ToEvaluate, 1, Len(EvaluatedFamilies))
        /\ pc = "MultinomialNB" => X_min >= 0
        /\ pc = "done" => EvaluatedFamilies = ToEvaluate

\* fit has returned on an X with a negative value, having evaluated the
\* four other families
C9_Witness ==
    /\ FitDone
    /\ kind = "classifier"
    /\ X_min < 0
    /\ EvaluatedFamilies =
          <<"DecisionTreeClassifier", "LinearSVC", "SVC", "MLPClassifier">>

\* ------------------------------------------------------------------------
\* Properties: the profile computed by Miscoding.fit
\* ------------------------------------------------------------------------

\* Miscoding.fit has returned and nothing has written into the profile
Miscoding_Fitted == pc = "Miscoding_fitted"

AllZero(v) == \A i \in 1..Len(v) : v[i] = <<0, 1>>

AllOne(v) == \A i \in 1..Len(v) : v[i] = OneQ

Subset_Returned == Miscoding_Fitted /\ result.call = "miscoding_subset"

\* 1 plus the negative entries of partial, less the entries in use
TopLessInUse(subset, partial) ==
    LET negative == [i \in 1..P |-> IF LessQ(partial[i], Zero)
                                     THEN partial[i] ELSE Zero]
        in_use   == [i \in 1..P |-> IF subset[i] = 1
                                     THEN partial[i] ELSE Zero]
    IN  SubQ(AddQ(OneQ, SumQ(negative)), SumQ(in_use))

\* C12: miscoding_subset(ViU) returns max(0, top - dot(ViU, partial)) with
\* top = 1 + the sum of the negative entries of partial; for every fitted
\* profile and every 0/1 mask the result is not below 0.
C12_SubsetFlooredAtZero ==
    Subset_Returned =>
        LET raw   == TopLessInUse(result.subset, partial_)
            value == result.value[1]
        IN  /\ result.error = "none"
            /\ value = IF LessQ(raw, Zero) THEN Zero ELSE raw
            /\ ~LessQ(value, Zero)

\* miscoding_subset has returned 0 for a mask on which top - dot(ViU,
\* partial) is negative
C12_Witness ==
    /\ Subset_Returned
    /\ LessQ(TopLessInUse(result.subset, partial_), Zero)
    /\ result.value[1] = Zero

\* ------------------------------------------------------------------------
\* Miscoding.cross_miscoding
\* ------------------------------------------------------------------------

\* most samples of a dataset, and largest lag asked for
MaxN == 4
MaxLag == 2

\* the value of a float that is not a number
NaN == <<0, 0>>

\* max_lag=None
NoLag == -1

\* int(np.sqrt(n))
Isqrt(n) == CHOOSE k \in 0..n : k * k <= n /\ n < (k + 1) * (k + 1)

\* a[:stop] of a sequence, for a stop of either sign
SliceTo(a, stop) ==
    LET n   == Len(a)
        end == IF stop < 0 THEN Max(n + stop, 0) ELSE Min(stop, n)
    IN  SubSeq(a, 1, end)

\* np.roll(a, -i)
Roll(a, i) ==
    LET n == Len(a)
    IN  [t \in 1..n |-> a[((t - 1 + i) % n) + 1]]

\* the samples of a dataset of n rows, named by their row
Rows(n) == [t \in 1..n |-> t]

\* the lagged vectors of the lag i, as the rows they are taken from:
\* new_x = X_[:, attribute][:-i]; new_y = np.roll(y_, -i)[:-i]
Lagged(n, i) ==
    [x |-> SliceTo(Rows(n), 0 - i),
     y |-> SliceTo(Roll(Rows(n), i), 0 - i)]

\* a Miscoding fitted on a dataset of n rows
InitCross ==
    /\ pc = "cross_miscoding"
    /\ kind = "classifier"
    /\ auto = FALSE
    /\ X_min = 0
    /\ regular_ = Determined
    /\ adjusted_ = AdjustedOf(Determined)
    /\ partial_ = PartialOf(Determined)
    /\ fam = 0
    /\ nsc = One
    /\ model_ = None
    /\ viu_ = NoViU
    /\ ret = NoRet
    /\ \E n \in 1..MaxN : frame = [method |-> "Miscoding", n |-> n]
    /\ evaluated = NoneEvaluated
    /\ scorer = AnyAnswer
    /\ result = NoResult

\* the call: the mode is validated, max_lag gets its default
cross_miscoding ==
    /\ pc = "cross_miscoding"
    /\ \E attribute \in 1..P, min_lag \in 0..MaxLag,
          max_lag \in {NoLag} \cup 0..MaxLag, mode \in Modes :
          IF mode \notin {"regular", "adjusted", "partial"}
          THEN /\ result' = [call |-> "cross_miscoding", mode |-> mode,
                             subset |-> <<>>, value |-> <<>>,
                             error |-> "ValueError"]
               /\ pc' = "returned"
               /\ UNCHANGED frame
          ELSE /\ frame' = [method |-> "cross_miscoding", n |-> frame.n,
                            attribute |-> attribute, min_lag |-> min_lag,
                            given |-> max_lag,
                            max_lag |-> IF max_lag = NoLag
                                        THEN Isqrt(frame.n) ELSE max_lag,
                            mode |-> mode, i |-> min_lag,
                            lag_mscd |-> <<>>, used |-> <<>>]
               /\ pc' = "cross_for"
               /\ UNCHANGED result
    /\ UNCHANGED <<kind, auto, X_min, regular_, adjusted_, partial_, fam, nsc,
                   model_, viu_, ret, evaluated, scorer>>

\* one pass of "for i in np.arange(start=min_lag, stop=max_lag)": the
\* three code lengths of the lagged vectors and their miscoding; on empty
\* vectors the discretizer raises, or the lengths are 0 and 0 / 0 is nan
cross_for ==
    /\ pc = "cross_for"
    /\ frame.i < frame.max_lag
    /\ LET new == Lagged(frame.n, frame.i)
           used == [t \in 1..Len(new.x) |-> <<new.x[t], new.y[t]>>]
       IN  \/ /\ Len(new.x) = 0
              /\ result' = [call |-> "cross_miscoding",
                            mode |-> frame.mode, subset |-> <<>>,
                            value |-> <<>>, error |-> "ValueError"]
              /\ frame' = [frame EXCEPT !.used = Append(@, used)]
              /\ pc' = "returned"
           \/ /\ \E mscd \in IF Len(new.x) = 0 THEN {NaN}
                               ELSE {Q(r, D) : r \in 0..D} :
                    frame' = [frame EXCEPT
                                 !.lag_mscd = Append(@, mscd),
                                 !.used = Append(@, used),
                                 !.i = @ + 1]
              /\ UNCHANGED <<pc, result>>
    /\ UNCHANGED <<kind, auto, X_min, regular_, adjusted_, partial_, fam, nsc,
                   model_, viu_, ret, evaluated, scorer>>

\* adjusted = 1 - regular, divided by its sum when that is not 0; a nan
\* among the entries makes the sum, and so every entry, nan
CrossAdjusted(regular) ==
    IF \E k \in 1..Len(regular) : regular[k] = NaN
    THEN [k \in 1..Len(regular) |-> NaN]
    ELSE AdjustedOf(regular)

\* after the loop: the vector in the mode asked for; the branch of
\* "partial" reads the local adjusted, which only the branch of
\* "adjusted" assigns
cross_return ==
    /\ pc = "cross_for"
    /\ frame.i >= frame.max_lag
    /\ LET regular == frame.lag_mscd
       IN  result' = [call |-> "cross_miscoding", mode |-> frame.mode,
                      subset |-> <<>>,
                      value |-> CASE frame.mode = "regular" -> regular
                                  [] frame.mode = "adjusted" ->
                                         CrossAdjusted(regular)
                                  [] OTHER -> <<>>,
                      error |-> IF frame.mode = "partial"
                                THEN "UnboundLocalError" ELSE "none"]
    /\ pc' = "returned"
    /\ UNCHANGED <<kind, auto, X_min, regular_, adjusted_, partial_, fam, nsc,
                   model_, viu_, ret, frame, evaluated, scorer>>

NextCross ==
    \/ cross_miscoding
    \/ cross_for
    \/ cross_return

SpecCross == InitCross /\ [][NextCross]_vars

\* ------------------------------------------------------------------------
\* Properties: cross_miscoding
\* ------------------------------------------------------------------------

\* cross_miscoding is running or has returned from its loop
Cross_Called == frame.method = "cross_miscoding"

\* the aligned pairs of the lag l: (feature[t], target[t + l])
AlignedPairs(n, l) == [t \in 1..(n - l) |-> <<t, t + l>>]

\* every lag computed so far used the n - l aligned pairs
UsesAlignedPairs ==
    \A k \in 1..Len(frame.used) :
        frame.used[k] = AlignedPairs(frame.n, frame.min_lag + k - 1)

\* C13: cross_miscoding computes one value for every lag l in [min_lag,
\* max_lag), the default min_lag = 0 included, each from the n - l aligned
\* pairs (feature[t], target[t + l]); the result has max_lag - min_lag
\* entries and the default max_lag is floor(sqrt(n)).
C13_OneValuePerLag ==
    Cross_Called =>
        /\ UsesAlignedPairs
        /\ frame.given = NoLag =>
              /\ frame.max_lag * frame.max_lag <= frame.n
              /\ frame.n < (frame.max_lag + 1) * (frame.max_lag + 1)
        /\ (pc = "returned" /\ frame.mode \in {"regular", "adjusted"}) =>
              /\ result.error = "none"
              /\ Len(result.value) = Max(frame.max_lag - frame.min_lag, 0)
              /\ \A k \in 1..Len(result.value) : result.value[k] # NaN

\* cross_miscoding has returned, or raised
Cross_Returned == pc = "returned" /\ result.call = "cross_miscoding"

\* every lag of the call had samples to compute its value from
EveryLagHasSamples ==
    Cross_Called => \A k \in 1..Len(frame.used) : Len(frame.used[k]) > 0

\* C14: on a fitted Miscoding, cross_miscoding returns the per-lag vector
\* in the mode asked for, for each of "regular", "adjusted" and "partial"
\* (adjusted minus the share regular / sum(regular)), and fails with an
\* invalid-argument error for any other mode.
C14_VectorInEveryMode ==
    (Cross_Returned /\ EveryLagHasSamples) =>
        CASE result.mode = "regular" ->
                /\ result.error = "none"
                /\ result.value = frame.lag_mscd
          [] result.mode = "adjusted" ->
                /\ result.error = "none"
                /\ result.value = AdjustedOf(frame.lag_mscd)
          [] result.mode = "partial" ->
                /\ result.error = "none"
                /\ result.value = PartialOf(frame.lag_mscd)
          [] OTHER ->
                /\ result.error = "ValueError"
                /\ result.value = <<>>

\* ------------------------------------------------------------------------
\* Properties: miscoding_model
\* ------------------------------------------------------------------------

\* miscoding_model has returned, or raised
Model_Returned == Miscoding_Fitted /\ result.call = "miscoding_model"

TreeKinds == {"DecisionTreeClassifier", "DecisionTreeRegressor"}

\* Naive Bayes, the linear-coefficient models, the kernel SVM and the
\* multilayer models that miscoding_model recognises
DenseKinds(model) ==
    \/ model.class \in {"MultinomialNB", "LinearRegression", "LinearSVR",
                         "MLPClassifier", "MLPRegressor"}
    \/ model.class = "SVC" /\ model.kernel \in {"linear", "poly"}

\* the features of the split nodes of a tree, counted from 1
SplitFeatures(feature) ==
    {feature[n] + 1 : n \in {j \in 1..Len(feature) : feature[j] >= 0}}

\* C15: miscoding_model marks as in use, for a tree, exactly the distinct
\* features of its split nodes (none for a single leaf), and for Naive
\* Bayes, linear-coefficient, kernel-SVM and multilayer models all p
\* features; for any other kind of model it fails with a not-implemented
\* error and returns no score.
C15_MarksFeaturesInUse ==
    Model_Returned =>
        LET model == result.model
        IN  IF model.class \in TreeKinds
            THEN /\ result.error = "none"
                 /\ {i \in 1..P : result.subset[i] = 1}
                        = SplitFeatures(model.feature)
                 /\ \A i \in 1..P : result.subset[i] \in {0, 1}
                 /\ Len(result.value) = 1
            ELSE IF DenseKinds(model)
            THEN /\ result.error = "none"
                 /\ result.subset = [i \in 1..P |-> 1]
                 /\ Len(result.value) = 1
            ELSE /\ result.error = "NotImplementedError"
                 /\ result.value = <<>>

\* a tree with two split nodes on one feature, for which exactly that
\* feature is marked
C15_Witness ==
    /\ Model_Returned
    /\ result.model.class \in TreeKinds
    /\ Len(result.model.feature) = 5
    /\ Cardinality(SplitFeatures(result.model.feature)) = 1
    /\ Sum(result.subset) = 1

\* ------------------------------------------------------------------------
\* Properties: features_matrix
\* ------------------------------------------------------------------------

\* features_matrix has returned a matrix
Matrix_Returned ==
    /\ Miscoding_Fitted
    /\ result.call = "features_matrix"
    /\ result.error = "none"

Symmetric(M) == \A i, j \in 1..P : M[i][j] = M[j][i]
ZeroDiagonal(M) == \A i \in 1..P : M[i][i] = Zero
RowsSumToOne(M) == \A i \in 1..P : SumQ(M[i]) = OneQ

\* C16 (as stated): the matrix features_matrix returns is symmetric in
\* every supported mode; in "regular" mode its diagonal is zero and in
\* "adjusted" mode every row sums to 1.
C16_SymmetricInEveryMode ==
    Matrix_Returned =>
        /\ Symmetric(result.value)
        /\ result.mode = "regular" => ZeroDiagonal(result.value)
        /\ result.mode = "adjusted" => RowsSumToOne(result.value)

\* sum over j of 1 - miscoding(i, j), the miscoding of a feature given
\* itself being 0
RowWeight(mscd, i) ==
    SumQ([j \in 1..P |-> SubQ(OneQ, RegularMatrix(mscd)[i][j])])

\* C16 (amended): in "regular" mode the matrix is symmetric with a zero
\* diagonal; in "adjusted" mode every row is 1 - miscoding divided by its
\* own sum, so every row sums to 1, the diagonal is positive and entries
\* (i, j) and (j, i) agree only up to the sums of their rows; the two
\* modes are the only ones supported.
C16_SymmetricInRegularMode ==
    (Miscoding_Fitted /\ result.call = "features_matrix") =>
        LET M == result.value
        IN  CASE result.mode = "regular" ->
                    /\ result.error = "none"
                    /\ Symmetric(M)
                    /\ ZeroDiagonal(M)
                    /\ \A ij \in FeaturePairs :
                          M[ij[1]][ij[2]] = result.mscd[ij]
              [] result.mode = "adjusted" ->
                    /\ result.error = "none"
                    /\ RowsSumToOne(M)
                    /\ \A i \in 1..P : LessQ(Zero, M[i][i])
                    /\ \A i, j \in 1..P :
                          MulQ(M[i][j], RowWeight(result.mscd, i))
                              = MulQ(M[j][i], RowWeight(result.mscd, j))
              [] OTHER ->
                    /\ result.error = "ValueError"
                    /\ M = <<>>

\* an adjusted matrix whose entries (1, 2) and (2, 1) differ
C16_Witness ==
    /\ Matrix_Returned
    /\ result.mode = "adjusted"
    /\ RowsSumToOne(result.value)
    /\ result.value[1][2] # result.value[2][1]

\* ------------------------------------------------------------------------
\* Inaccuracy
\* ------------------------------------------------------------------------

\* the values a discretized target or prediction takes
MaxLabels == 2
Labels == 1..MaxLabels

\* the vectors of n discretized values
Vectors(n) == [1..n -> Labels]

RECURSIVE PowQ(_, _)
PowQ(a, k) == IF k = 0 THEN OneQ ELSE MulQ(a, PowQ(a, k - 1))

RECURSIVE ProductQ(_)
ProductQ(v) == IF Len(v) = 0 THEN OneQ ELSE MulQ(v[1], ProductQ(Tail(v)))

\* a joint symbol that is the sum of the two values
Pairing_Sum(a, b) == a + b

\* x = (x1 + x2) * (x1 + x2 + 1) / 2 + x2, then x.astype(int): the
\* fraction of the quotient is dropped, the integer x2 added to what is left
Pairing(a, b) == ((a + b) * (a + b + 1)) \div 2 + b

\* _unique_count: np.bincount of the values (of the joint symbols when
\* there is a second vector), the symbols that do not occur left out
unique_count(x1, x2) ==
    LET n    == Len(x1)
        x    == IF x2 = <<>> THEN x1
                ELSE [t \in 1..n |-> Pairing(x1[t], x2[t])]
        top  == IF x2 = <<>> THEN MaxLabels
                ELSE Pairing(MaxLabels, MaxLabels)
        y    == [k \in 1..(top + 1) |->
                    Cardinality({t \in 1..n : x[t] = k - 1})]
    IN  SelectSeq(y, LAMBDA c : c > 0)

\* the sum with count / len(x1) turned over: count * -log2(len(x1) / count)
optimal_code_length_Inverted(x1, x2) ==
    LET count == unique_count(x1, x2)
    IN  ProductQ([k \in 1..Len(count) |->
                     PowQ(Q(count[k], Len(x1)), count[k])])

\* _optimal_code_length: sum(count * -log2(count / len(x1))), kept as the
\* rational 2 ^ ldm, the product of (len(x1) / count) ^ count
optimal_code_length(x1, x2) ==
    LET count == unique_count(x1, x2)
    IN  ProductQ([k \in 1..Len(count) |->
                     PowQ(Q(Len(x1), count[k]), count[k])])

\* (len_joint - min(len_y, len_pred)) / max(len_y, len_pred) for code
\* lengths kept as 2 ^ length: the quotient log2(num) / log2(den)
Inacc(len_y, pred, y) ==
    LET len_pred  == optimal_code_length(pred, <<>>)
        len_joint == optimal_code_length(pred, y)
        lower     == IF LessQ(len_pred, len_y) THEN len_pred ELSE len_y
        upper     == IF LessQ(len_pred, len_y) THEN len_y ELSE len_pred
    IN  [num |-> DivQ(len_joint, lower), den |-> upper]

\* Inaccuracy(...) constructed, fit not yet called
InitInaccuracy ==
    /\ pc = "Inaccuracy"
    /\ kind = "classifier"
    /\ auto = FALSE
    /\ X_min = 0
    /\ regular_ = <<>>
    /\ adjusted_ = <<>>
    /\ partial_ = <<>>
    /\ fam = 0
    /\ nsc = One
    /\ model_ = None
    /\ viu_ = NoViU
    /\ ret = NoRet
    /\ frame = NoFrame
    /\ evaluated = NoneEvaluated
    /\ scorer = AnyAnswer
    /\ result = NoResult

\* Inaccuracy.fit(X, y): y_ and its code length
Inaccuracy_fit ==
    /\ pc \in {"Inaccuracy", "Inaccuracy_fitted"}
    /\ \E n \in 1..MaxN : \E y \in Vectors(n) :
          frame' = [method |-> "Inaccuracy", y_ |-> y,
                    len_y |-> optimal_code_length(y, <<>>)]
    /\ result' = NoResult
    /\ pc' = "Inaccuracy_fitted"
    /\ UNCHANGED <<kind, auto, X_min, regular_, adjusted_, partial_, fam, nsc,
                   model_, viu_, ret, evaluated, scorer>>

\* Inaccuracy.inaccuracy_model(model): Pred = model.predict(X_)
inaccuracy_model ==
    /\ pc = "Inaccuracy_fitted"
    /\ \E Pred \in Vectors(Len(frame.y_)) :
          result' = [call |-> "inaccuracy_model", mode |-> "none",
                     subset |-> <<>>, pred |-> Pred,
                     value |-> Inacc(frame.len_y, Pred, frame.y_),
                     error |-> "none"]
    /\ UNCHANGED <<pc, kind, auto, X_min, regular_, adjusted_, partial_, fam,
                   nsc, model_, viu_, ret, frame, evaluated, scorer>>

\* Inaccuracy.inaccuracy_predictions(predictions)
inaccuracy_predictions ==
    /\ pc = "Inaccuracy_fitted"
    /\ \E pred \in Vectors(Len(frame.y_)) :
          result' = [call |-> "inaccuracy_predictions", mode |-> "none",
                     subset |-> <<>>, pred |-> pred,
                     value |-> Inacc(frame.len_y, pred, frame.y_),
                     error |-> "none"]
    /\ UNCHANGED <<pc, kind, auto, X_min, regular_, adjusted_, partial_, fam,
                   nsc, model_, viu_, ret, frame, evaluated, scorer>>

NextInaccuracy ==
    \/ Inaccuracy_fit
    \/ inaccuracy_model
    \/ inaccuracy_predictions

SpecInaccuracy == InitInaccuracy /\ [][NextInaccuracy]_vars

\* ------------------------------------------------------------------------
\* Properties: Inaccuracy
\* ------------------------------------------------------------------------

\* an inaccuracy has been returned
Inaccuracy_Returned ==
    /\ pc = "Inaccuracy_fitted"
    /\ result.call \in {"inaccuracy_model", "inaccuracy_predictions"}

\* what a quotient log2(num) / log2(den) is as a float
IsNaN(v) == v.num = OneQ /\ v.den = OneQ
IsZero(v) == v.num = OneQ /\ v.den # OneQ
InUnitInterval(v) ==
    /\ v.den # OneQ
    /\ ~LessQ(v.num, OneQ)
    /\ ~LessQ(v.den, v.num)

\* C17: for every fitted Inaccuracy and every model whose predictions
\* equal the target exactly, inaccuracy_model (and inaccuracy_predictions
\* on the same vector) returns 0; in general the result lies in [0, 1].
C17_ZeroOnExactPredictions ==
    Inaccuracy_Returned =>
        /\ result.pred = frame.y_ => IsZero(result.value)
        /\ InUnitInterval(result.value)

\* ------------------------------------------------------------------------
\* Surfeit.surfeit_string
\* ------------------------------------------------------------------------

\* longest model string, in bytes
MaxBytes == 4

\* the values of the compressor argument
Compressors == {"bz2", "lzma", "zlib", "other"}

\* the code lengths a target can have
TargetLengths == {Q(h, 2) : h \in 0..(2 * MaxBytes)}

\* a Surfeit fitted on a dataset: len_y_ is the code length of the target
InitSurfeit ==
    /\ pc = "Surfeit_fitted"
    /\ kind = "classifier"
    /\ auto = FALSE
    /\ X_min = 0
    /\ regular_ = <<>>
    /\ adjusted_ = <<>>
    /\ partial_ = <<>>
    /\ fam = 0
    /\ nsc = One
    /\ model_ = None
    /\ viu_ = NoViU
    /\ ret = NoRet
    /\ \E len_y \in TargetLengths, compressor \in Compressors :
          frame = [method |-> "Surfeit", len_y_ |-> len_y,
                   compressor |-> compressor]
    /\ evaluated = NoneEvaluated
    /\ scorer = AnyAnswer
    /\ result = NoResult

\* the redundancy of a string of lm bytes that compresses to km bytes
Redundancy(len_y, lm, km) ==
    IF km > lm
    THEN SubQ(OneQ, Q(3, 4))
    ELSE IF LessQ(len_y, Q(km, 1))
    THEN SubQ(OneQ, DivQ(len_y, Q(lm, 1)))
    ELSE SubQ(OneQ, Q(km, lm))

\* Surfeit.surfeit_string(model_string): lm = len(emodel) and km =
\* len(compressed), which is never 0: every compressor writes a header.
\* The method does not test that the instance is fitted: len_y_ is read
\* only after the test km > lm, and the read fails when fit never set it.
surfeit_string ==
    /\ pc \in {"Surfeit", "Surfeit_fitted"}
    /\ \E lm \in 0..MaxBytes, km \in 1..(MaxBytes + 1) :
          LET fitted == "len_y_" \in DOMAIN frame
              failed == ~fitted /\ ~(km > lm)
          IN  result' =
                 [call |-> "surfeit_string", mode |-> "none",
                  subset |-> <<>>, lm |-> lm, km |-> km,
                  compressor |-> IF frame.compressor \in {"lzma", "zlib"}
                                 THEN frame.compressor ELSE "bz2",
                  value |-> IF failed THEN <<>>
                            ELSE IF fitted
                            THEN <<Redundancy(frame.len_y_, lm, km)>>
                            ELSE <<Redundancy(Zero, lm, km)>>,
                  error |-> IF failed THEN "AttributeError" ELSE "none"]
    /\ UNCHANGED <<pc, kind, auto, X_min, regular_, adjusted_, partial_, fam,
                   nsc, model_, viu_, ret, frame, evaluated, scorer>>

NextSurfeit == surfeit_string

SpecSurfeit == InitSurfeit /\ [][NextSurfeit]_vars

\* a Surfeit as __init__ leaves it: compressor is stored, len_y_ is not set
InitSurfeitNew ==
    /\ pc = "Surfeit"
    /\ kind = "classifier"
    /\ auto = FALSE
    /\ X_min = 0
    /\ regular_ = <<>>
    /\ adjusted_ = <<>>
    /\ partial_ = <<>>
    /\ fam = 0
    /\ nsc = One
    /\ model_ = None
    /\ viu_ = NoViU
    /\ ret = NoRet
    /\ \E compressor \in Compressors :
          frame = [method |-> "Surfeit", compressor |-> compressor]
    /\ evaluated = NoneEvaluated
    /\ scorer = AnyAnswer
    /\ result = NoResult

\* Surfeit.fit(X, y): len_y_ becomes the code length of the target
Surfeit_fit ==
    /\ pc \in {"Surfeit", "Surfeit_fitted"}
    /\ \E len_y \in TargetLengths :
          frame' = [method |-> "Surfeit", len_y_ |-> len_y,
                    compressor |-> frame.compressor]
    /\ result' = NoResult
    /\ pc' = "Surfeit_fitted"
    /\ UNCHANGED <<kind, auto, X_min, regular_, adjusted_, partial_, fam,
                   nsc, model_, viu_, ret, evaluated, scorer>>

NextSurfeitNew ==
    \/ Surfeit_fit
    \/ surfeit_string

SpecSurfeitNew == InitSurfeitNew /\ [][NextSurfeitNew]_vars

\* ------------------------------------------------------------------------
\* Properties: surfeit_string
\* ------------------------------------------------------------------------

\* surfeit_string has returned
Surfeit_Returned == pc = "Surfeit_fitted" /\ result.call = "surfeit_string"

\* C18: surfeit_string returns the floor value 0.25 whenever km >= lm
\* (equality included); otherwise it returns 1 - target_code_length / lm
\* when target_code_length < km, and 1 - km / lm in the remaining case.
C18_FloorWhenNotSmaller ==
    Surfeit_Returned =>
        LET lm    == result.lm
            km    == result.km
            len_y == frame.len_y_
        IN  result.value[1] =
               IF km >= lm THEN Q(1, 4)
               ELSE IF LessQ(len_y, Q(km, 1))
               THEN SubQ(OneQ, DivQ(len_y, Q(lm, 1)))
               ELSE SubQ(OneQ, Q(km, lm))

\* ------------------------------------------------------------------------
\* Nescience.nescience
\* ------------------------------------------------------------------------

\* the literal 10e-6
Epsilon == Q(10, 1000000)

\* the scores miscoding, inaccuracy and surfeit can return
Components == {Q(r, NscUnit) : r \in 0..NscUnit}

\* the values of the method argument
Methods == {"Euclid", "Arithmetic", "Geometric", "Product", "Addition",
            "Harmonic", "other"}

\* "Avoid dividing by zero": a component that is 0 becomes 10e-6, then a
\* surfeit below the inaccuracy becomes 1
Clamped(miscoding, inaccuracy, surfeit) ==
    LET s1 == IF surfeit = Zero THEN Epsilon ELSE surfeit
        i1 == IF inaccuracy = Zero THEN Epsilon ELSE inaccuracy
        m1 == IF miscoding = Zero THEN Epsilon ELSE miscoding
        s2 == IF LessQ(s1, i1) THEN OneQ ELSE s1
    IN  [miscoding |-> m1, inaccuracy |-> i1, surfeit |-> s2]

\* Floats are kept exact.  Squares and cubes of 10e-6 do not fit the
\* integers of the model, so a component is the monomial c * eps ^ e with
\* eps standing for the literal 10e-6, and a sum of components is the
\* polynomial that gives every power of eps its coefficient.
Powers == -1..3
Mono(c, e) == [c |-> c, e |-> e]
ToMono(q) == IF q = Epsilon THEN Mono(OneQ, 1) ELSE Mono(q, 0)
MulM(a, b) == Mono(MulQ(a.c, b.c), a.e + b.e)
InvM(a) == Mono(DivQ(OneQ, a.c), 0 - a.e)
SumM(terms) ==
    [k \in Powers |->
        SumQ([t \in 1..Len(terms) |->
                 IF terms[t].e = k THEN terms[t].c ELSE Zero])]

\* a result: the root-th root of the quotient num / den
Value(root, num, den) == [root |-> root, num |-> num, den |-> den]
Unit == SumM(<<Mono(OneQ, 0)>>)
Three == SumM(<<Mono(Q(3, 1), 0)>>)

\* math.sqrt(miscoding**2 + inaccuracy**2 + surfeit**2)
Euclid(m, i, s) == Value(2, SumM(<<MulM(m, m), MulM(i, i), MulM(s, s)>>), Unit)

\* (miscoding + inaccuracy + surfeit) / 3
Arithmetic(m, i, s) == Value(1, SumM(<<m, i, s>>), Three)

\* math.pow(miscoding * inaccuracy * surfeit, 1/3)
Geometric(m, i, s) == Value(3, SumM(<<MulM(m, MulM(i, s))>>), Unit)

\* miscoding * inaccuracy * surfeit
Product(m, i, s) == Value(1, SumM(<<MulM(m, MulM(i, s))>>), Unit)

\* miscoding + inaccuracy + surfeit
Addition(m, i, s) == Value(1, SumM(<<m, i, s>>), Unit)

\* 3 / ((1/miscoding) + (1/inaccuracy) + (1/surfeit))
Harmonic(m, i, s) == Value(1, Three, SumM(<<InvM(m), InvM(i), InvM(s)>>))

\* the same chain with the mean in the place of the sum
Aggregate_AdditionIsMean(method, m, i, s) ==
    CASE method = "Euclid" -> Euclid(m, i, s)
      [] method = "Arithmetic" -> Arithmetic(m, i, s)
      [] method = "Geometric" -> Geometric(m, i, s)
      [] method = "Product" -> Product(m, i, s)
      [] method = "Addition" -> Arithmetic(m, i, s)
      [] method = "Harmonic" -> Harmonic(m, i, s)

\* the if / elif chain on self.method
Aggregate(method, m, i, s) ==
    CASE method = "Euclid" -> Euclid(m, i, s)
      [] method = "Arithmetic" -> Arithmetic(m, i, s)
      [] method = "Geometric" -> Geometric(m, i, s)
      [] method = "Product" -> Product(m, i, s)
      [] method = "Addition" -> Addition(m, i, s)
      [] method = "Harmonic" -> Harmonic(m, i, s)

\* a Nescience constructed with a method and fitted on a dataset
InitNescience ==
    /\ pc = "Nescience_fitted"
    /\ kind = "classifier"
    /\ auto = FALSE
    /\ X_min = 0
    /\ regular_ = <<>>
    /\ adjusted_ = <<>>
    /\ partial_ = <<>>
    /\ fam = 0
    /\ nsc = One
    /\ model_ = None
    /\ viu_ = NoViU
    /\ ret = NoRet
    /\ \E method \in Methods :
          frame = [method |-> "Nescience", aggregation |-> method]
    /\ evaluated = NoneEvaluated
    /\ scorer = AnyAnswer
    /\ result = NoResult

\* Nescience.nescience(model): the three scores, the guards against 0,
\* the aggregation; no branch of the chain takes a method it does not
\* name, and the return then reads a local that was never assigned
nescience ==
    /\ pc = "Nescience_fitted"
    /\ \E miscoding \in Components, inaccuracy \in Components,
          surfeit \in Components :
          LET c == Clamped(miscoding, inaccuracy, surfeit)
          IN  result' =
                 [call |-> "nescience", mode |-> frame.aggregation,
                  subset |-> <<>>,
                  given |-> [miscoding |-> miscoding,
                             inaccuracy |-> inaccuracy,
                             surfeit |-> surfeit],
                  components |-> c,
                  value |-> IF frame.aggregation = "other" THEN <<>>
                            ELSE <<Aggregate(frame.aggregation,
                                             ToMono(c.miscoding),
                                             ToMono(c.inaccuracy),
                                             ToMono(c.surfeit))>>,
                  error |-> IF frame.aggregation = "other"
                            THEN "UnboundLocalError" ELSE "none"]
    /\ UNCHANGED <<pc, kind, auto, X_min, regular_, adjusted_, partial_, fam,
                   nsc, model_, viu_, ret, frame, evaluated, scorer>>

NextNescience == nescience

SpecNescience == InitNescience /\ [][NextNescience]_vars

\* ------------------------------------------------------------------------
\* Properties: Nescience.nescience
\* ------------------------------------------------------------------------

\* nescience has run its guards
Nescience_Called == pc = "Nescience_fitted" /\ result.call = "nescience"

\* a score, with 1e-6 in the place of 0
OrSmall(q) == IF q = Zero THEN Q(1, 1000000) ELSE q

\* C19: before aggregation, nescience replaces each component score that
\* equals 0 by the epsilon value 1e-6 and then, if surfeit < inaccuracy,
\* uses surfeit = 1; no component reaches the aggregation formula as 0.
C19_ZeroBecomesEpsilon ==
    Nescience_Called =>
        LET g == result.given
            c == result.components
        IN  /\ c.miscoding = OrSmall(g.miscoding)
            /\ c.inaccuracy = OrSmall(g.inaccuracy)
            /\ c.surfeit = IF LessQ(OrSmall(g.surfeit),
                                     OrSmall(g.inaccuracy))
                            THEN OneQ ELSE OrSmall(g.surfeit)
            /\ Zero \notin {c.miscoding, c.inaccuracy, c.surfeit}

\* the three scores were given equal and positive, and a value returned
EqualScores ==
    /\ Nescience_Called
    /\ result.error = "none"
    /\ result.given.miscoding = result.given.inaccuracy
    /\ result.given.inaccuracy = result.given.surfeit
    /\ LessQ(Zero, result.given.surfeit)

\* a polynomial times the rational q
Times(poly, q) == [k \in Powers |-> MulQ(poly[k], q)]

\* the value is the number q: num = q ^ root * den
IsNumber(value, q) == value.num = Times(value.den, PowQ(q, value.root))

\* C20 (as stated): when miscoding == inaccuracy == surfeit == v (v > 0),
\* each of the six aggregation methods returns v.
C20_AllMethodsReturnCommonValue ==
    EqualScores => IsNumber(result.value[1], result.given.surfeit)

\* C20 (amended): at equal positive scores v the Arithmetic, Geometric and
\* Harmonic methods return v; Euclid returns sqrt(3) * v, Product returns
\* v ^ 3 and Addition returns 3 * v.
C20_MeansReturnCommonValue ==
    EqualScores =>
        LET v     == result.given.surfeit
            value == result.value[1]
        IN  CASE result.mode \in {"Arithmetic", "Geometric", "Harmonic"} ->
                    IsNumber(value, v)
              [] result.mode = "Euclid" ->
                    /\ value.root = 2
                    /\ value.num = Times(value.den, MulQ(Q(3, 1), MulQ(v, v)))
              [] result.mode = "Product" ->
                    IsNumber(value, MulQ(v, MulQ(v, v)))
              [] result.mode = "Addition" ->
                    IsNumber(value, MulQ(Q(3, 1), v))

\* the Euclid method on three scores of 1/2: the value is not 1/2
C20_Witness ==
    /\ EqualScores
    /\ result.mode = "Euclid"
    /\ result.given.surfeit = Q(1, 2)
    /\ ~IsNumber(result.value[1], Q(1, 2))

\* ------------------------------------------------------------------------
\* _unique_count and _optimal_code_length
\* ------------------------------------------------------------------------

\* the arguments of a call: x1, and x2 or None (the empty tuple)
InitCount ==
    /\ pc = "code_length"
    /\ kind = "classifier"
    /\ auto = FALSE
    /\ X_min = 0
    /\ regular_ = <<>>
    /\ adjusted_ = <<>>
    /\ partial_ = <<>>
    /\ fam = 0
    /\ nsc = One
    /\ model_ = None
    /\ viu_ = NoViU
    /\ ret = NoRet
    /\ \E n \in 1..MaxN : \E x1 \in Vectors(n), x2 \in Vectors(n) \cup {<<>>} :
          frame = [method |-> "_optimal_code_length", x1 |-> x1, x2 |-> x2]
    /\ evaluated = NoneEvaluated
    /\ scorer = AnyAnswer
    /\ result = NoResult

\* _optimal_code_length(x1, numeric1, x2, numeric2): count =
\* _unique_count(...), ldm = np.sum(count * (-np.log2(count / len(x1))))
code_length ==
    /\ pc = "code_length"
    /\ result' = [call |-> "_optimal_code_length", mode |-> "none",
                  subset |-> <<>>,
                  count |-> unique_count(frame.x1, frame.x2),
                  value |-> optimal_code_length(frame.x1, frame.x2),
                  error |-> "none"]
    /\ pc' = "return"
    /\ UNCHANGED <<kind, auto, X_min, regular_, adjusted_, partial_, fam,
                   nsc, model_, viu_, ret, frame, evaluated, scorer>>

NextCount == code_length

SpecCount == InitCount /\ [][NextCount]_vars

\* ------------------------------------------------------------------------
\* _discretize_vector
\* ------------------------------------------------------------------------

\* longest vector, and largest value of a sample
MaxLength == 27
MaxValue == 5

\* int(np.cbrt(length))
Cbrt(length) ==
    CHOOSE k \in 0..length :
        k * k * k <= length /\ length < (k + 1) * (k + 1) * (k + 1)

\* the number of bins with no correction when it is too small
OptimalBins_NoMinimum(length) == Cbrt(length)

\* optimal_bins = int(np.cbrt(length)); if optimal_bins <= 1: 2
OptimalBins(length) == IF Cbrt(length) <= 1 THEN 2 ELSE Cbrt(length)

\* int(np.round(num / den)) of a non-negative quotient: halves go to the
\* even neighbour
Round(num, den) ==
    LET whole == num \div den
        rest  == 2 * (num % den)
    IN  IF rest < den THEN whole
        ELSE IF rest > den THEN whole + 1
        ELSE IF whole % 2 = 0 THEN whole ELSE whole + 1

\* add_bins = int(np.round((length * (1 - actual_bins / optimal_bins))
\*                         / optimal_bins)),
\* the quotient being length * (optimal_bins - actual_bins) / optimal_bins^2
AddBins(length, actual_bins, optimal_bins) ==
    Round(length * (optimal_bins - actual_bins), optimal_bins * optimal_bins)

\* KBinsDiscretizer(n_bins, encode='ordinal', strategy='uniform'): n_bins
\* intervals of equal width from the smallest to the largest value, the
\* largest value in the last one; one bin when all values are equal
Bin(v, lo, hi, n_bins) ==
    IF lo = hi THEN 0
    ELSE LET b == ((v - lo) * n_bins) \div (hi - lo)
         IN  IF b > n_bins - 1 THEN n_bins - 1 ELSE b

\* actual_bins = len(np.nonzero(np.bincount(tmp_x))[0])
ActualBins(values, n_bins) ==
    LET lo == CHOOSE v \in values : \A w \in values : v <= w
        hi == CHOOSE v \in values : \A w \in values : w <= v
    IN  Cardinality({Bin(v, lo, hi, n_bins) : v \in values})

\* before a call of _discretize_vector
InitDiscretize ==
    /\ pc = "discretize"
    /\ kind = "classifier"
    /\ auto = FALSE
    /\ X_min = 0
    /\ regular_ = <<>>
    /\ adjusted_ = <<>>
    /\ partial_ = <<>>
    /\ fam = 0
    /\ nsc = One
    /\ model_ = None
    /\ viu_ = NoViU
    /\ ret = NoRet
    /\ frame = NoFrame
    /\ evaluated = NoneEvaluated
    /\ scorer = AnyAnswer
    /\ result = NoResult

\* _discretize_vector(x), the lines before the loop: x has length samples
\* that take the values
discretize_vector ==
    /\ pc = "discretize"
    /\ \E length \in 1..MaxLength :
       \E values \in (SUBSET (0..MaxValue)) \ {{}} :
          /\ Cardinality(values) <= length
          /\ frame' = [method |-> "_discretize_vector",
                       length |-> length, values |-> values,
                       optimal_bins |-> OptimalBins(length),
                       total_bins |-> OptimalBins(length),
                       fitted_bins |-> 0,
                       previous_bins |-> 0, actual_bins |-> 0,
                       stop |-> FALSE]
    /\ pc' = "discretize_while"
    /\ UNCHANGED <<kind, auto, X_min, regular_, adjusted_, partial_, fam,
                   nsc, model_, viu_, ret, evaluated, scorer, result>>

\* one round of the loop: est is fitted with total_bins bins
discretize_while ==
    /\ pc = "discretize_while"
    /\ frame.stop = FALSE
    /\ LET actual_bins == ActualBins(frame.values, frame.total_bins)
           few         == actual_bins < frame.optimal_bins
       IN  frame' = [frame EXCEPT
                        !.fitted_bins = frame.total_bins,
                        !.actual_bins = actual_bins,
                        !.stop = (frame.previous_bins = actual_bins) \/ ~few,
                        !.previous_bins = IF few THEN actual_bins ELSE @,
                        !.total_bins =
                            IF few
                            THEN @ + AddBins(frame.length, actual_bins,
                                             frame.optimal_bins)
                            ELSE @]
    /\ UNCHANGED <<pc, kind, auto, X_min, regular_, adjusted_, partial_, fam,
                   nsc, model_, viu_, ret, evaluated, scorer, result>>

\* new_x = est.transform(new_x), with the bins of the last round
discretize_return ==
    /\ pc = "discretize_while"
    /\ frame.stop = TRUE
    /\ result' = [call |-> "_discretize_vector", mode |-> "none",
                  subset |-> <<>>,
                  value |-> <<frame.fitted_bins, frame.actual_bins>>,
                  error |-> "none"]
    /\ pc' = "return"
    /\ UNCHANGED <<kind, auto, X_min, regular_, adjusted_, partial_, fam,
                   nsc, model_, viu_, ret, frame, evaluated, scorer>>

NextDiscretize ==
    \/ discretize_vector
    \/ discretize_while
    \/ discretize_return

SpecDiscretize == InitDiscretize /\ [][NextDiscretize]_vars

\* the call runs on: a step is taken whenever one is possible
SpecDiscretizeFair == SpecDiscretize /\ WF_vars(NextDiscretize)

\* ------------------------------------------------------------------------
\* Properties: the refinement loop of the discretizer
\* ------------------------------------------------------------------------

\* the call is in its loop, or has left it
Discretize_Entered == pc = "discretize_while" \/ pc = "return"

\* t is max(2, floor(cube root of n))
IsTarget(t, n) ==
    /\ t >= 2
    /\ n < (t + 1) * (t + 1) * (t + 1)
    /\ t > 2 => t * t * t <= n

TargetIsCubeRoot ==
    Discretize_Entered => IsTarget(frame.optimal_bins, frame.length)

\* a round of the loop has run in this step
Discretize_Round ==
    pc = "discretize_while" /\ pc' = "discretize_while" /\ frame' # frame

TotalNeverDecreases ==
    Discretize_Round => frame'.total_bins >= frame.total_bins

\* frame.actual_bins is the populated-bin count of the round before, when
\* there was one (fitted_bins > 0)
ExitsOnTargetOrStable ==
    (Discretize_Round /\ frame'.stop) =>
        \/ frame'.actual_bins >= frame.optimal_bins
        \/ frame.fitted_bins > 0 /\ frame'.actual_bins = frame.actual_bins

\* C25: for every vector of n >= 1 samples the refinement loop of the
\* discretizer terminates; its target bin count is max(2, floor(cube root
\* of n)), the total bin count never decreases between rounds, and the
\* loop exits only in a round where the populated-bin count is at least
\* the target or equals the populated-bin count of the previous round.
C25_RefinementLoopTerminates ==
    /\ <>(pc = "return")
    /\ []TargetIsCubeRoot
    /\ [][TotalNeverDecreases /\ ExitsOnTargetOrStable]_vars

\* a call that returned after bins were added, with fewer populated bins
\* than the target
C25_Witness ==
    /\ pc = "return"
    /\ Cardinality(frame.values) > 1
    /\ frame.fitted_bins > frame.optimal_bins
    /\ frame.actual_bins < frame.optimal_bins

\* ------------------------------------------------------------------------
\* Properties: the pairing of joint counts
\* ------------------------------------------------------------------------

\* the non-negative integers the pairing is compared on
MaxSymbol == 6
Symbols == 0..MaxSymbol

\* _optimal_code_length has returned for two vectors
Joint_Returned == pc = "return" /\ frame.x2 # <<>>

\* the distinct pairs of values in the data
DataPairs == {<<frame.x1[t], frame.x2[t]>> : t \in 1..Len(frame.x1)}

\* C23: the pairing pair(a, b) = (a + b)(a + b + 1) / 2 + b, cast to an
\* integer, is injective on non-negative integers: two distinct pairs
\* never map to the same joint symbol (a pair of the data shares its
\* symbol with no other pair of non-negative integers up to MaxSymbol),
\* so the number of joint symbols equals the number of distinct (a, b)
\* pairs in the data.
C23_PairingInjective ==
    Joint_Returned =>
        /\ \A p \in DataPairs :
              LET symbol == Pairing(p[1], p[2])
              IN  \A c, d \in Symbols :
                      Pairing(c, d) = symbol => (p[1] = c /\ p[2] = d)
        /\ Len(result.count) = Cardinality(DataPairs)

\* data in which two distinct pairs have the same sum of values
C23_Witness ==
    /\ Joint_Returned
    /\ \E p, q \in DataPairs : p # q /\ p[1] + p[2] = q[1] + q[2]
    /\ Len(result.count) = Cardinality(DataPairs)

\* ------------------------------------------------------------------------
\* Properties: the optimal code length
\* ------------------------------------------------------------------------

\* _optimal_code_length has returned
Count_Returned == pc = "return" /\ result.call = "_optimal_code_length"

\* the distinct symbols of the data: values, or pairs of values
DataSymbols ==
    IF frame.x2 = <<>>
    THEN {<<frame.x1[t]>> : t \in 1..Len(frame.x1)}
    ELSE DataPairs

RECURSIVE SumOf(_)
SumOf(count) == IF Len(count) = 0 THEN 0 ELSE count[1] + SumOf(Tail(count))

\* C24: the code length sums only over symbols with a strictly positive
\* count, and the counts sum to n; for every non-empty input the result is
\* non-negative, and it is zero exactly when the vector is constant. The
\* value kept is 2 ^ length: it is at least 1, and 1 exactly when all
\* samples fall in one symbol.
C24_CodeLengthNonNegative ==
    Count_Returned =>
        /\ \A k \in 1..Len(result.count) : result.count[k] > 0
        /\ SumOf(result.count) = Len(frame.x1)
        /\ ~LessQ(result.value, OneQ)
        /\ result.value = OneQ <=> Cardinality(DataSymbols) = 1

\* a vector of more than one symbol, whose code length is positive
C24_Witness ==
    /\ Count_Returned
    /\ Cardinality(DataSymbols) > 1
    /\ LessQ(OneQ, result.value)

\* ------------------------------------------------------------------------
\* Properties: the feature-add move of the multilayer search
\* ------------------------------------------------------------------------

\* the feature-add move of this round has just been tried
MLP_FeatureTried == pc = "mlp_layer" /\ frame.move = "feature"

\* feature i is not in ViU and no feature outside ViU is more relevant
MostRelevantUnused(i, msd, viu) ==
    /\ viu[i] = 0
    /\ \A j \in 1..Len(viu) : viu[j] = 0 => ~LessQ(msd[i], msd[j])

\* C26: every feature-add move proposes the most relevant feature among
\* those not yet in ViU, so the proposed ViU is the ViU of the round with
\* exactly one new feature.
C26_FeatureAddProposesUnused ==
    MLP_FeatureTried =>
        \E i \in 1..P :
            /\ MostRelevantUnused(i, frame.msd, frame.viu)
            /\ frame.new_nn.cols = Put(frame.viu, i)

\* ------------------------------------------------------------------------
\* Properties: miscoding_subset and features of negative partial value
\* ------------------------------------------------------------------------

\* the mask with feature i taken out
Omit(subset, i) == [subset EXCEPT ![i] = 0]

\* the features of the mask scored whose partial value is negative
NegativeInUse ==
    {i \in 1..P : result.subset[i] = 1 /\ LessQ(partial_[i], Zero)}

\* C27 (as stated): for two 0/1 masks that differ only in one feature
\* whose partial value is negative, the score of the mask that includes
\* the feature is not larger than the score of the mask that omits it.
C27_IncludingNegativeNotLarger ==
    Subset_Returned =>
        \A i \in NegativeInUse :
            ~LessQ(MiscodingSubset(Omit(result.subset, i), partial_),
                   result.value[1])

\* C27 (amended): the score of the mask that includes the feature is not
\* smaller than the score of the mask that omits it; when the score of the
\* mask that omits it is positive, the score of the mask that includes it
\* is larger by the absolute partial value of the feature.
C27_IncludingNegativeNotSmaller ==
    Subset_Returned =>
        \A i \in NegativeInUse :
            LET omitted == MiscodingSubset(Omit(result.subset, i), partial_)
            IN  /\ ~LessQ(result.value[1], omitted)
                /\ LessQ(Zero, omitted) =>
                       result.value[1] = SubQ(omitted, partial_[i])

\* a mask with a feature of negative partial value that scores more than
\* the mask without it
C27_Witness ==
    /\ Subset_Returned
    /\ \E i \in NegativeInUse :
          LessQ(MiscodingSubset(Omit(result.subset, i), partial_),
                result.value[1])

\* ------------------------------------------------------------------------
\* Properties: a model after fit
\* ------------------------------------------------------------------------

\* C28: every family's local search returns a trained model together with
\* its score: after fit with auto=True in which at least one family was
\* evaluated, model_ is not None; in particular the tree search never
\* returns a None model.
C28_ModelAfterFit ==
    /\ (FitDone /\ evaluated.families # <<>>) => model_ # None
    /\ (pc = "update" /\ Families[fam] \in TreeFamilies) => ret.model # None

\* ------------------------------------------------------------------------
\* Properties: the forward selection of LinearRegression
\* ------------------------------------------------------------------------

\* the relevance of the features in the fitted profile
Relevance == AdjustedOf(regular_)

\* the features of viu come before all others in the relevance ranking
RankingPrefix(viu) ==
    /\ Sum(viu) >= 1
    /\ \A i, j \in 1..P :
          (viu[i] = 1 /\ viu[j] = 0) => ~LessQ(Relevance[i], Relevance[j])

\* the selection is running, or has returned
LR_Running == pc = "lr_while"
LR_Returned == pc = "returned" /\ ret.model # None

\* it starts with the single most relevant feature
LR_StartsWithMostRelevant ==
    (LR_Running /\ frame.rounds = 0) =>
        /\ Sum(frame.viu) = 1
        /\ frame.viu = Put(Zeros, ArgMax(Relevance))

\* at most p - 1 steps are accepted, in at most p rounds
LR_AtMostPRounds ==
    LR_Running =>
        /\ frame.rounds <= P
        /\ Sum(frame.viu) - 1 <= P - 1

LR_ReturnsPrefix ==
    LR_Returned =>
        /\ RankingPrefix(ret.viu)
        /\ ret.model.cols = ret.viu
        /\ ret.model.nsc = ret.nsc

\* an accepted step adds the most relevant feature not yet in use, and
\* only that one, and strictly lowers the incumbent score
LR_AcceptedStepAddsOne ==
    (LR_Running /\ pc' = "lr_while" /\ frame'.decreased) =>
        /\ frame'.nsc < frame.nsc
        /\ \E i \in 1..P :
              /\ MostRelevantUnused(i, Relevance, frame.viu)
              /\ frame'.viu = Put(frame.viu, i)

\* C29: the forward feature selection of LinearRegression terminates for
\* every dataset with a deterministic scorer: it starts with the single
\* most relevant feature, each accepted step adds exactly one feature (the
\* most relevant one not yet in use) and strictly lowers the incumbent
\* score, so at most p - 1 steps are accepted and the returned ViU is a
\* non-empty prefix of the relevance ranking.
C29_ForwardSelectionTerminates ==
    /\ <>LR_Returned
    /\ [](LR_StartsWithMostRelevant /\ LR_AtMostPRounds /\ LR_ReturnsPrefix)
    /\ [][LR_AcceptedStepAddsOne]_vars

\* ------------------------------------------------------------------------
\* Properties: the working model of the SVM coordinate search
\* ------------------------------------------------------------------------

\* the search is between two parameters: none of the tests of the next
\* parameter has run
SVC_BetweenParameters ==
    /\ pc \in {"svc_test", "svc_while"}
    /\ frame.m <= 1

\* C30: after each parameter has been processed the working model's
\* hyperparameter values equal the accepted values in param_value, so the
\* returned model is fitted with exactly the accepted hyperparameters and
\* the returned score is the score computed for those hyperparameters.
C30_WorkingModelHoldsAccepted ==
    /\ SVC_BetweenParameters =>
           /\ frame.tmp_model.params = frame.param_value
           /\ frame.scored = frame.param_value
    /\ SVC_Returned =>
           /\ ret.model.par = frame.param_value
           /\ frame.tmp_model.fitted = frame.param_value
           /\ frame.scored = frame.param_value
           /\ ret.model.nsc = ret.nsc

\* a search that returned other values than the defaults after a pass in
\* which every test was rejected
C30_Witness ==
    /\ SVC_Returned
    /\ frame.param_value # SVC_Default
    /\ frame.passes >= 2
    /\ \A k \in 1..Len(frame.log) : frame.log[k][3] = FALSE

\* ------------------------------------------------------------------------
\* Properties: configuration strings
\* ------------------------------------------------------------------------

\* the compressor names the documentation gives as valid
ValidCompressors == {"bz2", "lzma", "zlib"}

\* C21: an invalid configuration string given to Miscoding, Inaccuracy,
\* Surfeit or Nescience is rejected with an invalid-argument error at
\* construction or at the first call that uses it; no invalid value is
\* silently replaced by a default and no score is returned for it. Stated
\* here for the compressor name of a Surfeit instance and its first use,
\* surfeit_string.
C21_InvalidConfigurationRejected ==
    (Surfeit_Returned /\ frame.compressor \notin ValidCompressors) =>
        /\ result.error = "ValueError"
        /\ result.value = <<>>

\* ------------------------------------------------------------------------
\* Properties: calls before fit
\* ------------------------------------------------------------------------

\* C22: calling a scoring method on an instance on which fit has not been
\* called fails with a not-fitted error and returns no value. Stated here
\* for Surfeit.surfeit_string.
C22_NotFittedErrorBeforeFit ==
    (pc = "Surfeit" /\ result.call = "surfeit_string") =>
        /\ result.error = "NotFittedError"
        /\ result.value = <<>>

====
